---- MODULE Spec2Model ----
(***************************************************************************)
(* State-machine model of the credential and session lifecycle core of the *)
(* auth service (src/auth_service/authentication): AuthUser, UserSession,  *)
(* PasswordResetToken, EmailVerification and AuditLog rows, the rate-limit *)
(* cache, and the service operations and views that read and write them.   *)
(*                                                                         *)
(* Time is an integer number of ticks; TicksPerSecond ticks make a second, *)
(* so that two instants of the same epoch second can be told apart.        *)
(* A handler runs at one instant `now`; the clock moves between handlers.  *)
(***************************************************************************)
EXTENDS Integers, Sequences, FiniteSets, TLC

VARIABLES
    now,            \* timezone.now(), in ticks
    users,          \* auth_users: email -> AuthUser row
    sessions,       \* user_sessions: set of UserSession rows
    resetTokens,    \* password_reset_tokens: set of PasswordResetToken rows
    verifications,  \* email_verifications: set of EmailVerification rows
    auditLog,       \* audit_logs: sequence of AuditLog rows, in insertion order
    cache,          \* django cache: rate-limit key -> [count, expires]
    rateCalls,      \* history: rate-limit key -> the times of its allowed calls
    jwts,           \* access tokens handed out so far (the decoded payloads)
    nextId,         \* source of fresh uuid4 / secrets.token_urlsafe values
    result,         \* what the last operation returned to its caller
    procs           \* requests in flight: worker -> its position and local row copy

vars == <<now, users, sessions, resetTokens, verifications, auditLog, cache,
          rateCalls, jwts, nextId, result, procs>>

----------------------------------------------------------------------------
(* Bounds of the model *)

TicksPerSecond == 2
MaxAuditAuth == 6
MaxAudit == 3
MaxIds == 2
MaxTokens == 2
MaxCalls == 12

----------------------------------------------------------------------------
(* Constants of the program *)

MAX_FAILED_ATTEMPTS == 5
LOCK_MINUTES == 30
SESSION_HOURS == 24
JWT_HOURS == 1
RESET_HOURS == 1
VERIFY_HOURS == 24
SESSION_RETENTION_DAYS == 30
AUDIT_RETENTION_DAYS == 90

Seconds(n) == n * TicksPerSecond
Minutes(n) == Seconds(60 * n)
Hours(n) == Minutes(60 * n)
Days(n) == Hours(24 * n)

NoTime == -1        \* a NULL DateTimeField
T0 == Seconds(1)    \* the instant the model starts at: the rows of auth_users exist
NoUser == "none"    \* None where a user is expected

Emails == {"a@x.com", "b@x.com"}      \* the rows of auth_users
UnknownEmail == "nobody@x.com"        \* an address no row has
Passwords == {"pw123456", "newpw789"}
MSG_LOCKED == "Account is temporarily locked due to multiple failed attempts"
MSG_INACTIVE == "Account is inactive"
MSG_LOGIN_OK == "Login successful"
MSG_INVALID_CREDENTIALS == "Invalid credentials"

----------------------------------------------------------------------------
(* AuthUser (models.py) *)

\* make_password / check_password: a hash is checked against the raw
\* password it was made from.
make_password(raw) == <<"pbkdf2_sha256", raw>>

check_password(u, raw) == u.password = make_password(raw)

set_password(u, raw, t) ==
    [u EXCEPT !.password = make_password(raw), !.password_changed_at = t]

is_locked(u, t) == u.locked_until # NoTime /\ u.locked_until > t

increment_failed_attempts_only_at_threshold(u, t) ==
    LET n == u.failed_login_attempts + 1 IN
    [u EXCEPT !.failed_login_attempts = n,
              !.locked_until = IF n = MAX_FAILED_ATTEMPTS
                               THEN t + Minutes(LOCK_MINUTES) ELSE @]

increment_failed_attempts_late(u, t) ==
    LET n == u.failed_login_attempts + 1 IN
    [u EXCEPT !.failed_login_attempts = n,
              !.locked_until = IF n > MAX_FAILED_ATTEMPTS
                               THEN t + Minutes(LOCK_MINUTES) ELSE @]

increment_failed_attempts(u, t) ==
    LET n == u.failed_login_attempts + 1 IN
    [u EXCEPT !.failed_login_attempts = n,
              !.locked_until = IF n >= MAX_FAILED_ATTEMPTS
                               THEN t + Minutes(LOCK_MINUTES) ELSE @]

reset_failed_attempts_keeps_lock(u, t) ==
    [u EXCEPT !.failed_login_attempts = 0, !.last_login = t]

reset_failed_attempts(u, t) ==
    [u EXCEPT !.failed_login_attempts = 0, !.locked_until = NoTime, !.last_login = t]

NewUser(raw, active) ==
    [password |-> make_password(raw), is_active |-> active, is_verified |-> FALSE,
     password_changed_at |-> T0, last_login |-> NoTime,
     failed_login_attempts |-> 0, locked_until |-> NoTime]

----------------------------------------------------------------------------
(* AuditLog (models.py) *)

\* AuditLog.log_event: one new row. Of details the model keeps the reason
\* and the one number it may carry (failed_attempts, revoked_sessions), -1
\* when there is none.
log_event(action, ip, user, reason, count, t) ==
    [action |-> action, user |-> user, ip_address |-> ip,
     reason |-> reason, count |-> count, timestamp |-> t]

----------------------------------------------------------------------------
(* AuthenticationService.authenticate_user (services.py) *)

authenticate_user_inactive_first(us, email, password, ip, t) ==
    IF email \notin DOMAIN us
    THEN [user |-> NoUser, message |-> MSG_INVALID_CREDENTIALS, users |-> us,
          event |-> log_event("login_failed", ip, NoUser, "user_not_found", -1, t)]
    ELSE LET u == us[email] IN
      IF ~u.is_active
      THEN [user |-> NoUser, message |-> MSG_INACTIVE, users |-> us,
            event |-> log_event("login_failed", ip, email, "account_inactive", -1, t)]
      ELSE IF is_locked(u, t)
      THEN [user |-> NoUser, message |-> MSG_LOCKED, users |-> us,
            event |-> log_event("login_failed", ip, email, "account_locked", -1, t)]
      ELSE IF check_password(u, password)
      THEN [user |-> email, message |-> MSG_LOGIN_OK,
            users |-> [us EXCEPT ![email] = reset_failed_attempts(u, t)],
            event |-> log_event("login_success", ip, email, "", -1, t)]
      ELSE LET v == increment_failed_attempts(u, t) IN
           [user |-> NoUser, message |-> MSG_INVALID_CREDENTIALS,
            users |-> [us EXCEPT ![email] = v],
            event |-> log_event("login_failed", ip, email, "invalid_password",
                                v.failed_login_attempts, t)]

authenticate_user_counts_locked(us, email, password, ip, t) ==
    IF email \notin DOMAIN us
    THEN [user |-> NoUser, message |-> MSG_INVALID_CREDENTIALS, users |-> us,
          event |-> log_event("login_failed", ip, NoUser, "user_not_found", -1, t)]
    ELSE LET u == us[email] IN
      IF is_locked(u, t)
      THEN [user |-> NoUser, message |-> MSG_LOCKED,
            users |-> [us EXCEPT ![email] = increment_failed_attempts(u, t)],
            event |-> log_event("login_failed", ip, email, "account_locked", -1, t)]
      ELSE IF ~u.is_active
      THEN [user |-> NoUser, message |-> MSG_INACTIVE, users |-> us,
            event |-> log_event("login_failed", ip, email, "account_inactive", -1, t)]
      ELSE IF check_password(u, password)
      THEN [user |-> email, message |-> MSG_LOGIN_OK,
            users |-> [us EXCEPT ![email] = reset_failed_attempts(u, t)],
            event |-> log_event("login_success", ip, email, "", -1, t)]
      ELSE LET v == increment_failed_attempts(u, t) IN
           [user |-> NoUser, message |-> MSG_INVALID_CREDENTIALS,
            users |-> [us EXCEPT ![email] = v],
            event |-> log_event("login_failed", ip, email, "invalid_password",
                                v.failed_login_attempts, t)]

authenticate_user_names_unknown(us, email, password, ip, t) ==
    IF email \notin DOMAIN us
    THEN [user |-> NoUser, message |-> "User not found", users |-> us,
          event |-> log_event("login_failed", ip, NoUser, "user_not_found", -1, t)]
    ELSE LET u == us[email] IN
      IF is_locked(u, t)
      THEN [user |-> NoUser, message |-> MSG_LOCKED, users |-> us,
            event |-> log_event("login_failed", ip, email, "account_locked", -1, t)]
      ELSE IF ~u.is_active
      THEN [user |-> NoUser, message |-> MSG_INACTIVE, users |-> us,
            event |-> log_event("login_failed", ip, email, "account_inactive", -1, t)]
      ELSE IF check_password(u, password)
      THEN [user |-> email, message |-> MSG_LOGIN_OK,
            users |-> [us EXCEPT ![email] = reset_failed_attempts(u, t)],
            event |-> log_event("login_success", ip, email, "", -1, t)]
      ELSE LET v == increment_failed_attempts(u, t) IN
           [user |-> NoUser, message |-> MSG_INVALID_CREDENTIALS,
            users |-> [us EXCEPT ![email] = v],
            event |-> log_event("login_failed", ip, email, "invalid_password",
                                v.failed_login_attempts, t)]

\* The outcome of authenticate_user on the user table `us` at time t: the
\* user returned (or NoUser), the message, the user table after the call
\* and the audit row written.
authenticate_user(us, email, password, ip, t) ==
    IF email \notin DOMAIN us
    THEN [user |-> NoUser, message |-> MSG_INVALID_CREDENTIALS, users |-> us,
          event |-> log_event("login_failed", ip, NoUser, "user_not_found", -1, t)]
    ELSE LET u == us[email] IN
      IF is_locked(u, t)
      THEN [user |-> NoUser, message |-> MSG_LOCKED, users |-> us,
            event |-> log_event("login_failed", ip, email, "account_locked", -1, t)]
      ELSE IF ~u.is_active
      THEN [user |-> NoUser, message |-> MSG_INACTIVE, users |-> us,
            event |-> log_event("login_failed", ip, email, "account_inactive", -1, t)]
      ELSE IF check_password(u, password)
      THEN [user |-> email, message |-> MSG_LOGIN_OK,
            users |-> [us EXCEPT ![email] = reset_failed_attempts(u, t)],
            event |-> log_event("login_success", ip, email, "", -1, t)]
      ELSE LET v == increment_failed_attempts(u, t) IN
           [user |-> NoUser, message |-> MSG_INVALID_CREDENTIALS,
            users |-> [us EXCEPT ![email] = v],
            event |-> log_event("login_failed", ip, email, "invalid_password",
                                v.failed_login_attempts, t)]

----------------------------------------------------------------------------
(* Initial state: the users exist (registration is outside this core), no   *)
(* session, token or audit row yet.                                         *)

NoResult == [op |-> "none"]

\* The state after construction with `us` as the rows of auth_users.
InitWith(us) ==
    /\ now = T0
    /\ users = us
    /\ sessions = {}
    /\ resetTokens = {}
    /\ verifications = {}
    /\ auditLog = <<>>
    /\ cache = <<>>
    /\ rateCalls = <<>>
    /\ jwts = {}
    /\ nextId = 1
    /\ result = NoResult
    /\ procs = <<>>

Init == InitWith([e \in Emails |-> NewUser("pw123456", TRUE)])

\* The clock moves to a later instant of the grid T.
Advance(T) ==
    /\ \E t \in T : t > now /\ now' = t
    /\ UNCHANGED <<users, sessions, resetTokens, verifications, auditLog, cache, rateCalls,
                   jwts, nextId, result, procs>>

----------------------------------------------------------------------------
(* Operation: AuthenticateCredentials, called on its own *)

AuthenticateUser(email, password, ip) ==
    LET r == authenticate_user(users, email, password, ip, now) IN
    /\ users' = r.users
    /\ auditLog' = Append(auditLog, r.event)
    /\ result' = [op |-> "authenticate_user", email |-> email, password |-> password,
                  user |-> r.user, message |-> r.message]
    /\ UNCHANGED <<now, sessions, resetTokens, verifications, cache, rateCalls, jwts, nextId, procs>>

\* Instants around one lock period and its end.
AuthInstants ==
    {T0 + d : d \in {0, 1, Minutes(LOCK_MINUTES), Minutes(LOCK_MINUTES) + 1}}

\* a@x.com may have been deactivated by the directory.
AuthInit ==
    \E active \in BOOLEAN :
        InitWith([e \in Emails |->
                    NewUser("pw123456", IF e = "a@x.com" THEN active ELSE TRUE)])

AuthNext ==
    \/ /\ Len(auditLog) < MaxAuditAuth
       /\ \E e \in Emails, p \in Passwords : AuthenticateUser(e, p, "10.0.0.1")
    \/ Advance(AuthInstants)

SpecAuth == AuthInit /\ [][AuthNext]_vars

----------------------------------------------------------------------------
(* Concurrent logins: authenticate_user runs outside any transaction, so a  *)
(* request reads the auth_users row in one statement and writes it back,    *)
(* whole, in a later one; other requests run in between.                    *)

Workers == {"w1", "w2"}

\* authenticate_user up to AuthUser.objects.get: the worker holds a copy of
\* the row.
BeginAuthenticate(w, email, password, ip) ==
    /\ w \notin DOMAIN procs
    /\ email \in DOMAIN users
    /\ procs' = (w :> [pc |-> "loaded", email |-> email, password |-> password,
                       ip |-> ip, user |-> users[email]]) @@ procs
    /\ UNCHANGED <<now, users, sessions, resetTokens, verifications, auditLog, cache,
                   rateCalls, jwts, nextId, result>>

\* The rest of authenticate_user, on the copy: the checks, and on the two
\* password branches save() of every column of the copy, then the audit row.
FinishAuthenticate(w) ==
    /\ w \in DOMAIN procs
    /\ LET p == procs[w]
           r == authenticate_user((p.email :> p.user) @@ users, p.email, p.password,
                                  p.ip, now)
           saved == r.event.reason \in {"", "invalid_password"}
       IN /\ users' = IF saved THEN [users EXCEPT ![p.email] = r.users[p.email]]
                                ELSE users
          /\ auditLog' = Append(auditLog, r.event)
          /\ result' = [op |-> "authenticate_user", email |-> p.email,
                        password |-> p.password, user |-> r.user,
                        message |-> r.message]
    /\ procs' = [x \in DOMAIN procs \ {w} |-> procs[x]]
    /\ UNCHANGED <<now, sessions, resetTokens, verifications, cache, rateCalls, jwts,
                   nextId>>

\* The same second, and the two sides of the end of a lock period.
RaceInstants == {T0 + d : d \in {0, Minutes(LOCK_MINUTES), Minutes(LOCK_MINUTES) + 1}}

RaceNext ==
    \/ /\ Len(auditLog) + Cardinality(DOMAIN procs) < MaxAuditAuth
       /\ \E w \in Workers, p \in Passwords :
             BeginAuthenticate(w, "a@x.com", p, "10.0.0.1")
    \/ \E w \in Workers : FinishAuthenticate(w)
    \/ Advance(RaceInstants)

SpecRace == Init /\ [][RaceNext]_vars

----------------------------------------------------------------------------
(* UserSession (models.py) *)

\* UserSession.generate_tokens: two secrets.token_urlsafe values; n is fresh.
generate_tokens(n) ==
    [session_token |-> <<"session", n>>, refresh_token |-> <<"refresh", n>>]

\* UserSession.is_expired
session_is_expired(s, t) == t > s.expires_at

\* UserSession.is_active
session_is_active(s, t) == s.status = "active" /\ ~session_is_expired(s, t)

\* UserSession.revoke: save() also stamps last_accessed (auto_now).
revoke(s, t) == [s EXCEPT !.status = "revoked", !.last_accessed = t]

refresh_keeps_refresh_token(s, n, t) ==
    [s EXCEPT !.session_token = generate_tokens(n).session_token,
              !.expires_at = t + Hours(SESSION_HOURS),
              !.last_accessed = t]

\* UserSession.refresh with new_expires_at = None
refresh(s, n, t) ==
    [s EXCEPT !.session_token = generate_tokens(n).session_token,
              !.refresh_token = generate_tokens(n).refresh_token,
              !.expires_at = t + Hours(SESSION_HOURS),
              !.last_accessed = t]

\* QuerySet.update(status=...) on the rows `rows` of a filter; other columns,
\* last_accessed included, stay as they are.
UpdateStatus(ss, rows, status) ==
    {IF s \in rows THEN [s EXCEPT !.status = status] ELSE s : s \in ss}

----------------------------------------------------------------------------
(* AuthenticationService: sessions and access tokens (services.py) *)

create_user_session_no_sweep(ss, user, n, t) ==
    LET new == [id |-> n, user |-> user,
                session_token |-> generate_tokens(n).session_token,
                refresh_token |-> generate_tokens(n).refresh_token,
                status |-> "active", created_at |-> t, last_accessed |-> t,
                expires_at |-> t + Hours(SESSION_HOURS)]
    IN [sessions |-> ss \cup {new}, session |-> new]

\* create_user_session: the lazy sweep marks every row of the user whose
\* expires_at has passed, whatever its status, then inserts the new row.
create_user_session(ss, user, n, t) ==
    LET swept == UpdateStatus(ss, {s \in ss : s.user = user /\ s.expires_at < t},
                              "expired")
        new == [id |-> n, user |-> user,
                session_token |-> generate_tokens(n).session_token,
                refresh_token |-> generate_tokens(n).refresh_token,
                status |-> "active", created_at |-> t, last_accessed |-> t,
                expires_at |-> t + Hours(SESSION_HOURS)]
    IN [sessions |-> swept \cup {new}, session |-> new]

\* What the Organization Directory answers for an email.
get_user_org_info(email) ==
    [user_id |-> <<"org-user", email>>, org_id |-> "org-1", role |-> "member"]

\* A datetime as the int epoch second PyJWT and int(x.timestamp()) keep.
EpochSecond(t) == t \div TicksPerSecond

\* generate_jwt_token: the payload, signed with JWT_SECRET.
generate_jwt_token(s, org, u, t) ==
    [sub |-> org.user_id, session_id |-> s.id, email |-> s.user,
     org_id |-> org.org_id, role |-> org.role,
     exp |-> EpochSecond(t) + 3600 * JWT_HOURS, iat |-> EpochSecond(t),
     iss |-> "auth-service",
     password_changed_at |-> EpochSecond(u.password_changed_at),
     signature |-> "JWT_SECRET"]

\* History kept with a token handed out, not a claim of the token: the
\* number of audit rows written before it was minted.
Stamp(tok, rows) == tok @@ [minted_after |-> rows]

MSG_VALID == "Valid token"
MSG_TOKEN_EXPIRED == "Token expired"
MSG_INVALID_TOKEN == "Invalid token"
MSG_SESSION_EXPIRED == "Session expired"
MSG_SESSION_NOT_FOUND == "Session not found"
MSG_PASSWORD_CHANGED == "Token invalidated due to password change"

validate_jwt_token_ignores_status(tok, ss, us, t) ==
    IF tok.signature # "JWT_SECRET"
    THEN [ok |-> FALSE, message |-> MSG_INVALID_TOKEN]
    ELSE IF Seconds(tok.exp) <= t
    THEN [ok |-> FALSE, message |-> MSG_TOKEN_EXPIRED]
    ELSE LET found == {s \in ss : s.id = tok.session_id} IN
      IF found = {}
      THEN [ok |-> FALSE, message |-> MSG_SESSION_NOT_FOUND]
      ELSE LET s == CHOOSE x \in found : TRUE IN
        IF tok.password_changed_at # 0
              /\ tok.password_changed_at < EpochSecond(us[s.user].password_changed_at)
        THEN [ok |-> FALSE, message |-> MSG_PASSWORD_CHANGED]
        ELSE [ok |-> TRUE, message |-> MSG_VALID]

validate_jwt_token_lookup_first(tok, ss, us, t) ==
    LET found == {s \in ss : s.id = tok.session_id /\ s.status = "active"} IN
    IF tok.signature # "JWT_SECRET"
    THEN [ok |-> FALSE, message |-> MSG_INVALID_TOKEN]
    ELSE IF found = {}
    THEN [ok |-> FALSE, message |-> MSG_SESSION_NOT_FOUND]
    ELSE IF Seconds(tok.exp) <= t
    THEN [ok |-> FALSE, message |-> MSG_TOKEN_EXPIRED]
    ELSE LET s == CHOOSE x \in found : TRUE IN
        IF session_is_expired(s, t)
        THEN [ok |-> FALSE, message |-> MSG_SESSION_EXPIRED]
        ELSE IF tok.password_changed_at # 0
                /\ tok.password_changed_at < EpochSecond(us[s.user].password_changed_at)
        THEN [ok |-> FALSE, message |-> MSG_PASSWORD_CHANGED]
        ELSE [ok |-> TRUE, message |-> MSG_VALID]

\* validate_jwt_token: jwt.decode (signature, then exp), the session looked
\* up by id with status active, its expiry, then the password_changed_at
\* snapshot against the session's user.
validate_jwt_token(tok, ss, us, t) ==
    IF tok.signature # "JWT_SECRET"
    THEN [ok |-> FALSE, message |-> MSG_INVALID_TOKEN]
    ELSE IF Seconds(tok.exp) <= t
    THEN [ok |-> FALSE, message |-> MSG_TOKEN_EXPIRED]
    ELSE LET found == {s \in ss : s.id = tok.session_id /\ s.status = "active"} IN
      IF found = {}
      THEN [ok |-> FALSE, message |-> MSG_SESSION_NOT_FOUND]
      ELSE LET s == CHOOSE x \in found : TRUE IN
        IF session_is_expired(s, t)
        THEN [ok |-> FALSE, message |-> MSG_SESSION_EXPIRED]
        ELSE IF tok.password_changed_at # 0
                /\ tok.password_changed_at < EpochSecond(us[s.user].password_changed_at)
        THEN [ok |-> FALSE, message |-> MSG_PASSWORD_CHANGED]
        ELSE [ok |-> TRUE, message |-> MSG_VALID]

\* logout_user: the active row with this session_token is revoked and a
\* logout row logged; no such row: nothing changes.
logout_user(ss, session_token, ip, t) ==
    LET found == {s \in ss : s.session_token = session_token /\ s.status = "active"} IN
    IF found = {}
    THEN [ok |-> FALSE, message |-> "Invalid session", sessions |-> ss, events |-> <<>>]
    ELSE LET s == CHOOSE x \in found : TRUE IN
         [ok |-> TRUE, message |-> "Logged out successfully",
          sessions |-> (ss \ {s}) \cup {revoke(s, t)},
          events |-> <<log_event("logout", ip, s.user, "", -1, t)>>]

logout_all_devices_everyone(ss, user, ip, t) ==
    LET active == {s \in ss : s.status = "active"} IN
    [count |-> Cardinality(active),
     sessions |-> UpdateStatus(ss, active, "revoked"),
     events |-> <<log_event("logout_all", ip, user, "", Cardinality(active), t)>>]

\* logout_all_devices
logout_all_devices(ss, user, ip, t) ==
    LET active == {s \in ss : s.user = user /\ s.status = "active"} IN
    [count |-> Cardinality(active),
     sessions |-> UpdateStatus(ss, active, "revoked"),
     events |-> <<log_event("logout_all", ip, user, "", Cardinality(active), t)>>]

refresh_session_leaves_expired_active(ss, us, refresh_token, n, orgUp, t) ==
    LET found == {s \in ss : s.refresh_token = refresh_token /\ s.status = "active"} IN
    IF found = {}
    THEN [ok |-> FALSE, message |-> "Invalid refresh token", sessions |-> ss,
          minted |-> {}, rotated |-> FALSE, pair |-> <<>>]
    ELSE LET s == CHOOSE x \in found : TRUE IN
      IF session_is_expired(s, t)
      THEN [ok |-> FALSE, message |-> MSG_SESSION_EXPIRED,
            sessions |-> ss,
            minted |-> {}, rotated |-> FALSE, pair |-> <<>>]
      ELSE LET s2 == refresh(s, n, t) IN
        IF ~orgUp
        THEN [ok |-> FALSE, message |-> "Failed to refresh session",
              sessions |-> (ss \ {s}) \cup {s2}, minted |-> {}, rotated |-> TRUE,
              pair |-> <<>>]
        ELSE [ok |-> TRUE, message |-> "Session refreshed",
              sessions |-> (ss \ {s}) \cup {s2},
              minted |-> {generate_jwt_token(s2, get_user_org_info(s2.user),
                                             us[s2.user], t)},
              rotated |-> TRUE,
              pair |-> [session_token |-> s2.session_token,
                        refresh_token |-> s2.refresh_token]]

\* refresh_session: the active row with this refresh_token; past its expiry
\* it is marked expired and saved; otherwise the pair is rotated and saved
\* first, and the directory is asked and the access token minted after.
refresh_session(ss, us, refresh_token, n, orgUp, t) ==
    LET found == {s \in ss : s.refresh_token = refresh_token /\ s.status = "active"} IN
    IF found = {}
    THEN [ok |-> FALSE, message |-> "Invalid refresh token", sessions |-> ss,
          minted |-> {}, rotated |-> FALSE, pair |-> <<>>]
    ELSE LET s == CHOOSE x \in found : TRUE IN
      IF session_is_expired(s, t)
      THEN [ok |-> FALSE, message |-> MSG_SESSION_EXPIRED,
            sessions |-> (ss \ {s}) \cup {[s EXCEPT !.status = "expired",
                                                    !.last_accessed = t]},
            minted |-> {}, rotated |-> FALSE, pair |-> <<>>]
      ELSE LET s2 == refresh(s, n, t) IN
        IF ~orgUp
        THEN [ok |-> FALSE, message |-> "Failed to refresh session",
              sessions |-> (ss \ {s}) \cup {s2}, minted |-> {}, rotated |-> TRUE,
              pair |-> <<>>]
        ELSE [ok |-> TRUE, message |-> "Session refreshed",
              sessions |-> (ss \ {s}) \cup {s2},
              minted |-> {generate_jwt_token(s2, get_user_org_info(s2.user),
                                             us[s2.user], t)},
              rotated |-> TRUE,
              pair |-> [session_token |-> s2.session_token,
                        refresh_token |-> s2.refresh_token]]

----------------------------------------------------------------------------
(* PasswordResetToken and EmailVerification (models.py) *)

\* is_expired / is_valid of both token models
token_is_expired(k, t) == t > k.expires_at

token_is_valid(k, t) == ~k.is_used /\ ~token_is_expired(k, t)

\* use_token
use_token(k) == [k EXCEPT !.is_used = TRUE]

MarkUsed(ks, user) ==
    {IF k.user = user /\ ~k.is_used THEN use_token(k) ELSE k : k \in ks}

create_reset_token_keeps_old(ks, user, n, t) ==
    ks \cup {[user |-> user, token |-> <<"reset", n>>, created_at |-> t,
              expires_at |-> t + Hours(RESET_HOURS), is_used |-> FALSE]}

\* PasswordResetToken.create_reset_token
create_reset_token(ks, user, n, t) ==
    MarkUsed(ks, user)
        \cup {[user |-> user, token |-> <<"reset", n>>, created_at |-> t,
               expires_at |-> t + Hours(RESET_HOURS), is_used |-> FALSE]}

\* EmailVerification.create_verification_token
create_verification_token(ks, user, n, t) ==
    ks \cup {[user |-> user, token |-> <<"verify", n>>, created_at |-> t,
              expires_at |-> t + Hours(VERIFY_HOURS), is_used |-> FALSE]}

----------------------------------------------------------------------------
(* VerificationService (services.py) *)

\* create_email_verification
create_email_verification(ks, user, n, t) ==
    create_verification_token(MarkUsed(ks, user), user, n, t)

verify_email_keeps_token(us, ks, token, ip, t) ==
    LET found == {k \in ks : k.token = token} IN
    IF found = {}
    THEN [ok |-> FALSE, message |-> "Invalid verification token",
          users |-> us, tokens |-> ks, events |-> <<>>]
    ELSE LET k == CHOOSE x \in found : TRUE IN
      IF ~token_is_valid(k, t)
      THEN [ok |-> FALSE, message |-> "Token is invalid or expired",
            users |-> us, tokens |-> ks, events |-> <<>>]
      ELSE [ok |-> TRUE, message |-> "Email verified successfully",
            users |-> [us EXCEPT ![k.user].is_verified = TRUE],
            tokens |-> ks,
            events |-> <<log_event("email_verified", ip, k.user, "", -1, t)>>]

\* verify_email
verify_email(us, ks, token, ip, t) ==
    LET found == {k \in ks : k.token = token} IN
    IF found = {}
    THEN [ok |-> FALSE, message |-> "Invalid verification token",
          users |-> us, tokens |-> ks, events |-> <<>>]
    ELSE LET k == CHOOSE x \in found : TRUE IN
      IF ~token_is_valid(k, t)
      THEN [ok |-> FALSE, message |-> "Token is invalid or expired",
            users |-> us, tokens |-> ks, events |-> <<>>]
      ELSE [ok |-> TRUE, message |-> "Email verified successfully",
            users |-> [us EXCEPT ![k.user].is_verified = TRUE],
            tokens |-> (ks \ {k}) \cup {use_token(k)},
            events |-> <<log_event("email_verified", ip, k.user, "", -1, t)>>]

create_password_reset_token_any_user(us, ks, email, ip, n, t) ==
    IF email \in DOMAIN us
    THEN [token |-> <<"reset", n>>, message |-> "Reset token created",
          tokens |-> create_reset_token(ks, email, n, t),
          events |-> <<log_event("password_reset_requested", ip, email, "", -1, t)>>]
    ELSE [token |-> <<>>,
          message |-> "If the email exists, a reset token has been sent",
          tokens |-> ks, events |-> <<>>]

\* create_password_reset_token: only for an active user with this email.
create_password_reset_token(us, ks, email, ip, n, t) ==
    IF email \in DOMAIN us /\ us[email].is_active
    THEN [token |-> <<"reset", n>>, message |-> "Reset token created",
          tokens |-> create_reset_token(ks, email, n, t),
          events |-> <<log_event("password_reset_requested", ip, email, "", -1, t)>>]
    ELSE [token |-> <<>>,
          message |-> "If the email exists, a reset token has been sent",
          tokens |-> ks, events |-> <<>>]

reset_password_keeps_token(us, ss, ks, token, new_password, ip, t) ==
    LET found == {k \in ks : k.token = token} IN
    IF found = {}
    THEN [ok |-> FALSE, message |-> "Invalid reset token",
          users |-> us, sessions |-> ss, tokens |-> ks, events |-> <<>>]
    ELSE LET k == CHOOSE x \in found : TRUE IN
      IF ~token_is_valid(k, t)
      THEN [ok |-> FALSE, message |-> "Token is invalid or expired",
            users |-> us, sessions |-> ss, tokens |-> ks, events |-> <<>>]
      ELSE [ok |-> TRUE, message |-> "Password reset successfully",
            users |-> [us EXCEPT ![k.user] = set_password(@, new_password, t)],
            sessions |-> UpdateStatus(ss, {s \in ss : s.user = k.user
                                                         /\ s.status = "active"},
                                      "revoked"),
            tokens |-> ks,
            events |-> <<log_event("password_reset_completed", ip, k.user, "", -1, t)>>]

\* reset_password
reset_password(us, ss, ks, token, new_password, ip, t) ==
    LET found == {k \in ks : k.token = token} IN
    IF found = {}
    THEN [ok |-> FALSE, message |-> "Invalid reset token",
          users |-> us, sessions |-> ss, tokens |-> ks, events |-> <<>>]
    ELSE LET k == CHOOSE x \in found : TRUE IN
      IF ~token_is_valid(k, t)
      THEN [ok |-> FALSE, message |-> "Token is invalid or expired",
            users |-> us, sessions |-> ss, tokens |-> ks, events |-> <<>>]
      ELSE [ok |-> TRUE, message |-> "Password reset successfully",
            users |-> [us EXCEPT ![k.user] = set_password(@, new_password, t)],
            sessions |-> UpdateStatus(ss, {s \in ss : s.user = k.user
                                                         /\ s.status = "active"},
                                      "revoked"),
            tokens |-> (ks \ {k}) \cup {use_token(k)},
            events |-> <<log_event("password_reset_completed", ip, k.user, "", -1, t)>>]

----------------------------------------------------------------------------
(* SecurityService (services.py) *)

\* cache.get(key, 0): an entry is gone once its timeout has run out.
cache_get(c, key, t) ==
    IF key \in DOMAIN c /\ c[key].expires > t THEN c[key].count ELSE 0

\* cache.set(key, value, timeout)
cache_set(c, key, value, timeout, t) ==
    (key :> [count |-> value, expires |-> t + timeout]) @@ c

\* The cache key of an (action, identifier) pair
RateKey(action, identifier) == <<"rate_limit", action, identifier>>

check_rate_limit_refusal_renews(c, identifier, action, limit, window, t) ==
    LET key == RateKey(action, identifier)
        current_count == cache_get(c, key, t)
    IN IF current_count >= limit
       THEN [allowed |-> FALSE,
             cache |-> cache_set(c, key, current_count, window, t)]
       ELSE [allowed |-> TRUE,
             cache |-> cache_set(c, key, current_count + 1, window, t)]

check_rate_limit_off_by_one(c, identifier, action, limit, window, t) ==
    LET key == RateKey(action, identifier)
        current_count == cache_get(c, key, t)
    IN IF current_count > limit
       THEN [allowed |-> FALSE, cache |-> c]
       ELSE [allowed |-> TRUE,
             cache |-> cache_set(c, key, current_count + 1, window, t)]

\* check_rate_limit
check_rate_limit(c, identifier, action, limit, window, t) ==
    LET key == RateKey(action, identifier)
        current_count == cache_get(c, key, t)
    IN IF current_count >= limit
       THEN [allowed |-> FALSE, cache |-> c]
       ELSE [allowed |-> TRUE,
             cache |-> cache_set(c, key, current_count + 1, window, t)]

\* The history of allowed calls after a call for `key` at time t.
RecordCall(calls, key, allowed, t) ==
    IF ~allowed THEN calls
    ELSE (key :> Append(IF key \in DOMAIN calls THEN calls[key] ELSE <<>>, t)) @@ calls

\* detect_suspicious_activity: over the user's rows of the last hour, newest
\* first: more than 3 addresses among the first 10, or 5 login attempts.
detect_suspicious_activity(log, user, t) ==
    LET recent == {i \in DOMAIN log : log[i].user = user
                                      /\ log[i].timestamp >= t - Hours(1)}
        first10 == {i \in recent : Cardinality({j \in recent : j > i}) < 10}
        attempts == {i \in recent : log[i].action \in {"login_success", "login_failed"}}
    IN IF Cardinality({log[i].ip_address : i \in first10}) > 3
       THEN [suspicious |-> TRUE, reason |-> "Multiple IP addresses detected"]
       ELSE IF Cardinality(attempts) >= 5
       THEN [suspicious |-> TRUE, reason |-> "Rapid login attempts detected"]
       ELSE [suspicious |-> FALSE, reason |-> "Normal activity"]

----------------------------------------------------------------------------
(* Periodic jobs (task.py) *)

\* cleanup_expired_sessions: the active rows past their expiry are marked
\* expired, then the rows created more than 30 days ago are deleted.
cleanup_expired_sessions(ss, t) ==
    LET to_expire(s) == s.expires_at < t /\ s.status = "active"
        marked == UpdateStatus(ss, {s \in ss : to_expire(s)}, "expired")
        old(s) == s.created_at < t - Days(SESSION_RETENTION_DAYS)
    IN [sessions |-> {s \in marked : ~old(s)},
        expired_sessions |-> Cardinality({s \in ss : to_expire(s)}),
        deleted_sessions |-> Cardinality({s \in marked : old(s)})]

\* cleanup_expired_tokens: the rows past their expiry are deleted.
cleanup_expired_tokens(ks, t) == {k \in ks : ~(k.expires_at < t)}

cleanup_old_audit_logs_after_30_days(log, t) ==
    LET kept(i) == ~(log[i].timestamp < t - Days(SESSION_RETENTION_DAYS))
        RECURSIVE Keep(_)
        Keep(i) == IF i > Len(log) THEN <<>>
                   ELSE IF kept(i) THEN <<log[i]>> \o Keep(i + 1)
                   ELSE Keep(i + 1)
    IN Keep(1)

\* cleanup_old_audit_logs: the rows older than 90 days are deleted.
cleanup_old_audit_logs(log, t) ==
    LET kept(i) == ~(log[i].timestamp < t - Days(AUDIT_RETENTION_DAYS))
        RECURSIVE Keep(_)
        Keep(i) == IF i > Len(log) THEN <<>>
                   ELSE IF kept(i) THEN <<log[i]>> \o Keep(i + 1)
                   ELSE Keep(i + 1)
    IN Keep(1)

MarkExpiredSessions_late(ss, t) ==
    UpdateStatus(ss, {s \in ss : /\ s.expires_at < t - Hours(SESSION_HOURS)
                                 /\ s.status = "active"}, "expired")

\* The two statements of cleanup_expired_sessions, each on its own.
MarkExpiredSessions(ss, t) ==
    UpdateStatus(ss, {s \in ss : s.expires_at < t /\ s.status = "active"}, "expired")

DeleteOldSessions(ss, t) ==
    {s \in ss : ~(s.created_at < t - Days(SESSION_RETENTION_DAYS))}

----------------------------------------------------------------------------
(* The views (views.py), one action per request, run to completion *)

LoginView_session_first(email, password, ip, orgUp) ==
    LET rl == check_rate_limit(cache, ip, "login_attempt", 10, Seconds(300), now)
        a == authenticate_user(users, email, password, ip, now)
        sus == detect_suspicious_activity(Append(auditLog, a.event), a.user, now)
        cs == create_user_session(sessions, a.user, nextId, now)
        tok == Stamp(generate_jwt_token(cs.session, get_user_org_info(email),
                                        a.users[a.user], now),
                     Len(auditLog) + 1)
        answer(status, message) ==
            [op |-> "login", email |-> email, password |-> password,
             status |-> status, message |-> message]
    IN
    /\ cache' = rl.cache
    /\ rateCalls' = RecordCall(rateCalls, RateKey("login_attempt", ip), rl.allowed, now)
    /\ IF ~rl.allowed
       THEN /\ result' = answer(429, "Rate limit exceeded")
            /\ UNCHANGED <<users, auditLog, sessions, jwts, nextId>>
       ELSE /\ users' = a.users
            /\ auditLog' = Append(auditLog, a.event)
            /\ IF a.user = NoUser
               THEN /\ result' = answer(401, a.message)
                    /\ UNCHANGED <<sessions, jwts, nextId>>
               ELSE IF ~orgUp
               THEN /\ result' = answer(503, "Service unavailable")
                    /\ sessions' = cs.sessions
                    /\ nextId' = nextId + 1
                    /\ UNCHANGED jwts
               ELSE /\ sessions' = cs.sessions
                    /\ jwts' = jwts \cup {tok}
                    /\ nextId' = nextId + 1
                    /\ result' = [answer(200, "Login successful") EXCEPT
                                    !.op = "login_ok"]
                                 @@ [access_token |-> tok,
                                     refresh_token |-> cs.session.refresh_token,
                                     session_id |-> cs.session.id,
                                     security_warning |-> sus.suspicious]
    /\ UNCHANGED <<now, resetTokens, verifications, procs>>

\* LoginView.post
LoginView(email, password, ip, orgUp) ==
    LET rl == check_rate_limit(cache, ip, "login_attempt", 10, Seconds(300), now)
        a == authenticate_user(users, email, password, ip, now)
        sus == detect_suspicious_activity(Append(auditLog, a.event), a.user, now)
        cs == create_user_session(sessions, a.user, nextId, now)
        tok == Stamp(generate_jwt_token(cs.session, get_user_org_info(email),
                                        a.users[a.user], now),
                     Len(auditLog) + 1)
        answer(status, message) ==
            [op |-> "login", email |-> email, password |-> password,
             status |-> status, message |-> message]
    IN
    /\ cache' = rl.cache
    /\ rateCalls' = RecordCall(rateCalls, RateKey("login_attempt", ip), rl.allowed, now)
    /\ IF ~rl.allowed
       THEN /\ result' = answer(429, "Rate limit exceeded")
            /\ UNCHANGED <<users, auditLog, sessions, jwts, nextId>>
       ELSE /\ users' = a.users
            /\ auditLog' = Append(auditLog, a.event)
            /\ IF a.user = NoUser
               THEN /\ result' = answer(401, a.message)
                    /\ UNCHANGED <<sessions, jwts, nextId>>
               ELSE IF ~orgUp
               THEN /\ result' = answer(503, "Service unavailable")
                    /\ UNCHANGED <<sessions, jwts, nextId>>
               ELSE /\ sessions' = cs.sessions
                    /\ jwts' = jwts \cup {tok}
                    /\ nextId' = nextId + 1
                    /\ result' = [answer(200, "Login successful") EXCEPT
                                    !.op = "login_ok"]
                                 @@ [access_token |-> tok,
                                     refresh_token |-> cs.session.refresh_token,
                                     session_id |-> cs.session.id,
                                     security_warning |-> sus.suspicious]
    /\ UNCHANGED <<now, resetTokens, verifications, procs>>

\* LogoutView.post with the session token in the body
LogoutView(session_token, ip) ==
    LET r == logout_user(sessions, session_token, ip, now) IN
    /\ sessions' = r.sessions
    /\ auditLog' = auditLog \o r.events
    /\ result' = [op |-> "logout", session_token |-> session_token,
                  status |-> IF r.ok THEN 200 ELSE 400, message |-> r.message]
    /\ UNCHANGED <<now, users, resetTokens, verifications, cache, rateCalls, jwts, nextId, procs>>

\* LogoutAllView.post with `tok` as the bearer token
LogoutAllView(tok, ip) ==
    LET v == validate_jwt_token(tok, sessions, users, now)
        r == logout_all_devices(sessions, tok.email, ip, now)
    IN
    /\ IF ~v.ok
       THEN /\ result' = [op |-> "logout_all", token |-> tok, status |-> 401,
                          message |-> v.message]
            /\ UNCHANGED <<sessions, auditLog>>
       ELSE /\ sessions' = r.sessions
            /\ auditLog' = auditLog \o r.events
            /\ result' = [op |-> "logout_all", token |-> tok, status |-> 200,
                          message |-> "Logged out", revoked_sessions |-> r.count]
    /\ UNCHANGED <<now, users, resetTokens, verifications, cache, rateCalls, jwts, nextId, procs>>

\* RefreshTokenView.post
RefreshTokenView(refresh_token, orgUp) ==
    LET r == refresh_session(sessions, users, refresh_token, nextId, orgUp, now)
        minted == {Stamp(tok, Len(auditLog)) : tok \in r.minted}
    IN
    /\ sessions' = r.sessions
    /\ jwts' = jwts \cup minted
    /\ nextId' = IF r.rotated THEN nextId + 1 ELSE nextId
    /\ result' = [op |-> "refresh", refresh_token |-> refresh_token,
                  status |-> IF r.ok THEN 200 ELSE 400, message |-> r.message,
                  minted |-> minted, pair |-> r.pair]
    /\ UNCHANGED <<now, users, resetTokens, verifications, auditLog, cache, rateCalls, procs>>

MSG_RESET_ACCEPTED == "If the email exists, a password reset link has been sent"

\* PasswordResetRequestView.post
PasswordResetRequestView(email, ip) ==
    LET rl == check_rate_limit(cache, email, "password_reset_request", 3,
                               Seconds(3600), now)
        r == create_password_reset_token(users, resetTokens, email, ip, nextId, now)
    IN
    /\ cache' = rl.cache
    /\ rateCalls' = RecordCall(rateCalls, RateKey("password_reset_request", email),
                               rl.allowed, now)
    /\ IF ~rl.allowed
       THEN /\ result' = [op |-> "reset_request", email |-> email, status |-> 429,
                          message |-> "Rate limit exceeded. Try again in 3600 seconds."]
            /\ UNCHANGED <<resetTokens, auditLog, nextId>>
       ELSE /\ resetTokens' = r.tokens
            /\ auditLog' = auditLog \o r.events
            /\ nextId' = IF r.events # <<>> THEN nextId + 1 ELSE nextId
            /\ result' = [op |-> "reset_request", email |-> email, status |-> 200,
                          message |-> MSG_RESET_ACCEPTED]
    /\ UNCHANGED <<now, users, sessions, verifications, jwts, procs>>

\* PasswordResetConfirmView.post
PasswordResetConfirmView(token, new_password, ip) ==
    LET r == reset_password(users, sessions, resetTokens, token, new_password, ip, now) IN
    /\ users' = r.users
    /\ sessions' = r.sessions
    /\ resetTokens' = r.tokens
    /\ auditLog' = auditLog \o r.events
    /\ result' = [op |-> "reset_confirm", token |-> token,
                  new_password |-> new_password,
                  status |-> IF r.ok THEN 200 ELSE 400, message |-> r.message]
    /\ UNCHANGED <<now, verifications, cache, rateCalls, jwts, nextId, procs>>

ChangePasswordView_revokes_current(tok, current_password, new_password, logout_all, ip) ==
    LET v == validate_jwt_token(tok, sessions, users, now)
        user == tok.email
        to_revoke(s) == s.user = user /\ s.status = "active"
        revoked_count == IF logout_all
                         THEN Cardinality({s \in sessions : to_revoke(s)}) ELSE 0
        answer(status, message) ==
            [op |-> "change_password", token |-> tok,
             current_password |-> current_password, new_password |-> new_password,
             logout_all |-> logout_all, status |-> status, message |-> message]
    IN
    /\ IF ~v.ok
       THEN /\ result' = answer(401, v.message)
            /\ UNCHANGED <<users, sessions, auditLog>>
       ELSE IF current_password = new_password
       THEN /\ result' = answer(400, "Invalid request data")
            /\ UNCHANGED <<users, sessions, auditLog>>
       ELSE IF ~check_password(users[user], current_password)
       THEN /\ result' = answer(400, "Current password is incorrect")
            /\ UNCHANGED <<users, sessions, auditLog>>
       ELSE /\ users' = [users EXCEPT ![user] = set_password(@, new_password, now)]
            /\ sessions' = IF logout_all
                           THEN UpdateStatus(sessions, {s \in sessions : to_revoke(s)},
                                             "revoked")
                           ELSE sessions
            /\ auditLog' = Append(auditLog,
                                  log_event("password_changed", ip, user, "",
                                            revoked_count, now))
            /\ result' = answer(200, "Password changed successfully")
    /\ UNCHANGED <<now, resetTokens, verifications, cache, rateCalls, jwts, nextId, procs>>

\* ChangePasswordView.post with `tok` as the bearer token. The serializer
\* refuses a new password equal to the current one.
ChangePasswordView(tok, current_password, new_password, logout_all, ip) ==
    LET v == validate_jwt_token(tok, sessions, users, now)
        user == tok.email
        to_revoke(s) == s.user = user /\ s.status = "active" /\ s.id # tok.session_id
        revoked_count == IF logout_all
                         THEN Cardinality({s \in sessions : to_revoke(s)}) ELSE 0
        answer(status, message) ==
            [op |-> "change_password", token |-> tok,
             current_password |-> current_password, new_password |-> new_password,
             logout_all |-> logout_all, status |-> status, message |-> message]
    IN
    /\ IF ~v.ok
       THEN /\ result' = answer(401, v.message)
            /\ UNCHANGED <<users, sessions, auditLog>>
       ELSE IF current_password = new_password
       THEN /\ result' = answer(400, "Invalid request data")
            /\ UNCHANGED <<users, sessions, auditLog>>
       ELSE IF ~check_password(users[user], current_password)
       THEN /\ result' = answer(400, "Current password is incorrect")
            /\ UNCHANGED <<users, sessions, auditLog>>
       ELSE /\ users' = [users EXCEPT ![user] = set_password(@, new_password, now)]
            /\ sessions' = IF logout_all
                           THEN UpdateStatus(sessions, {s \in sessions : to_revoke(s)},
                                             "revoked")
                           ELSE sessions
            /\ auditLog' = Append(auditLog,
                                  log_event("password_changed", ip, user, "",
                                            revoked_count, now))
            /\ result' = answer(200, "Password changed successfully")
    /\ UNCHANGED <<now, resetTokens, verifications, cache, rateCalls, jwts, nextId, procs>>

RevokeSessionView_any_user(tok, session_id, ip) ==
    LET v == validate_jwt_token(tok, sessions, users, now)
        found == {s \in sessions : s.id = session_id /\ s.status = "active"}
        s == CHOOSE x \in found : TRUE
        answer(status, message) ==
            [op |-> "revoke_session", token |-> tok, session_id |-> session_id,
             status |-> status, message |-> message]
    IN
    /\ IF ~v.ok
       THEN /\ result' = answer(401, v.message)
            /\ UNCHANGED <<sessions, auditLog>>
       ELSE IF found = {}
       THEN /\ result' = answer(404, MSG_SESSION_NOT_FOUND)
            /\ UNCHANGED <<sessions, auditLog>>
       ELSE /\ sessions' = (sessions \ {s}) \cup {revoke(s, now)}
            /\ auditLog' = Append(auditLog,
                                  log_event("session_revoked", ip, tok.email, "",
                                            -1, now))
            /\ result' = answer(200, "Session revoked successfully")
    /\ UNCHANGED <<now, users, resetTokens, verifications, cache, rateCalls, jwts, nextId, procs>>

\* RevokeSessionView.post with `tok` as the bearer token
RevokeSessionView(tok, session_id, ip) ==
    LET v == validate_jwt_token(tok, sessions, users, now)
        found == {s \in sessions : s.id = session_id /\ s.user = tok.email
                                   /\ s.status = "active"}
        s == CHOOSE x \in found : TRUE
        answer(status, message) ==
            [op |-> "revoke_session", token |-> tok, session_id |-> session_id,
             status |-> status, message |-> message]
    IN
    /\ IF ~v.ok
       THEN /\ result' = answer(401, v.message)
            /\ UNCHANGED <<sessions, auditLog>>
       ELSE IF found = {}
       THEN /\ result' = answer(404, MSG_SESSION_NOT_FOUND)
            /\ UNCHANGED <<sessions, auditLog>>
       ELSE /\ sessions' = (sessions \ {s}) \cup {revoke(s, now)}
            /\ auditLog' = Append(auditLog,
                                  log_event("session_revoked", ip, tok.email, "",
                                            -1, now))
            /\ result' = answer(200, "Session revoked successfully")
    /\ UNCHANGED <<now, users, resetTokens, verifications, cache, rateCalls, jwts, nextId, procs>>

\* VerificationService.create_email_verification, called on its own
CreateEmailVerification(email) ==
    /\ verifications' = create_email_verification(verifications, email, nextId, now)
    /\ nextId' = nextId + 1
    /\ result' = [op |-> "create_verification", email |-> email,
                  token |-> <<"verify", nextId>>]
    /\ UNCHANGED <<now, users, sessions, resetTokens, auditLog, cache, rateCalls,
                   jwts, procs>>

\* EmailVerificationView.post
EmailVerificationView(token, ip) ==
    LET r == verify_email(users, verifications, token, ip, now) IN
    /\ users' = r.users
    /\ verifications' = r.tokens
    /\ auditLog' = auditLog \o r.events
    /\ result' = [op |-> "verify_email", token |-> token,
                  status |-> IF r.ok THEN 200 ELSE 400, message |-> r.message]
    /\ UNCHANGED <<now, sessions, resetTokens, cache, rateCalls, jwts, nextId, procs>>

\* The daily token sweep
CleanupExpiredTokens ==
    /\ verifications' = cleanup_expired_tokens(verifications, now)
    /\ resetTokens' = cleanup_expired_tokens(resetTokens, now)
    /\ result' = [op |-> "cleanup_expired_tokens",
                  deleted_verification_tokens |->
                      Cardinality(verifications) - Cardinality(verifications'),
                  deleted_reset_tokens |->
                      Cardinality(resetTokens) - Cardinality(resetTokens')]
    /\ UNCHANGED <<now, users, sessions, auditLog, cache, rateCalls, jwts, nextId,
                   procs>>

\* SecurityService.check_rate_limit, called on its own
CheckRateLimit(identifier, action, limit, window) ==
    LET r == check_rate_limit(cache, identifier, action, limit, window, now) IN
    /\ cache' = r.cache
    /\ rateCalls' = RecordCall(rateCalls, RateKey(action, identifier), r.allowed, now)
    /\ result' = [op |-> "check_rate_limit", key |-> RateKey(action, identifier),
                  limit |-> limit, window |-> window, allowed |-> r.allowed]
    /\ UNCHANGED <<now, users, sessions, resetTokens, verifications, auditLog, jwts,
                   nextId, procs>>

\* A protected call presenting `tok`: validate_jwt_token and its answer.
ValidateAccessToken(tok) ==
    LET v == validate_jwt_token(tok, sessions, users, now) IN
    /\ result' = [op |-> "validate", token |-> tok, ok |-> v.ok,
                  message |-> v.message]
    /\ UNCHANGED <<now, users, sessions, resetTokens, verifications, auditLog,
                   cache, rateCalls, jwts, nextId, procs>>

\* The hourly session sweep
CleanupExpiredSessions ==
    LET r == cleanup_expired_sessions(sessions, now) IN
    /\ sessions' = r.sessions
    /\ result' = [op |-> "cleanup_expired_sessions",
                  expired_sessions |-> r.expired_sessions,
                  deleted_sessions |-> r.deleted_sessions]
    /\ UNCHANGED <<now, users, resetTokens, verifications, auditLog, cache, rateCalls,
                   jwts, nextId, procs>>

----------------------------------------------------------------------------
(* Serial executions: each request runs to completion before the next.     *)
(* One specification per group of operations, so that each stays small.    *)

\* Every token value handed out so far, and (n = 0) one that never was.
SessionTokensSeen == {generate_tokens(n).session_token : n \in 0..(nextId - 1)}
RefreshTokensSeen == {generate_tokens(n).refresh_token : n \in 0..(nextId - 1)}
ResetTokensSeen == {<<"reset", n>> : n \in 0..(nextId - 1)}
VerifyTokensSeen == {<<"verify", n>> : n \in 0..(nextId - 1)}

\* A bearer token with the payload of `tok` under a signature that is not
\* the service's.
Forged(tok) == [tok EXCEPT !.signature = "forged"]

\* Password change and reset with the tokens minted around them. a@x.com
\* is the user who changes the password, b@x.com a bystander.
\* Instants: the same epoch second, the next one, and the expiry of the
\* access tokens minted at the start.
PasswordInstants == {T0 + d : d \in {0, 1, Seconds(1), Hours(JWT_HOURS)}}

PasswordNext ==
    \/ /\ Len(auditLog) < MaxAudit
       /\ nextId <= MaxIds
       /\ \E p \in Passwords : LoginView("a@x.com", p, "10.0.0.1", TRUE)
    \/ /\ Len(auditLog) < MaxAudit
       /\ nextId <= MaxIds
       /\ LoginView("b@x.com", "pw123456", "10.0.0.1", TRUE)
    \/ /\ nextId <= MaxIds
       /\ \E rt \in RefreshTokensSeen : RefreshTokenView(rt, TRUE)
    \/ /\ Len(auditLog) < MaxAudit
       /\ nextId <= MaxIds
       /\ PasswordResetRequestView("a@x.com", "10.0.0.1")
    \/ /\ Len(auditLog) < MaxAudit
       /\ \E k \in ResetTokensSeen, p \in Passwords :
             PasswordResetConfirmView(k, p, "10.0.0.1")
    \/ /\ Len(auditLog) < MaxAudit
       /\ \E tok \in jwts, cur \in Passwords, new \in Passwords, all \in BOOLEAN :
             ChangePasswordView(tok, cur, new, all, "10.0.0.1")
    \/ \E tok \in jwts : ValidateAccessToken(tok)
    \/ Advance(PasswordInstants)

SpecPassword == Init /\ [][PasswordNext]_vars

\* The life of sessions: every operation that writes a session's status.
\* Instants: the start, after the 24 hours of a session, and after the 30
\* days a row is kept.
SessionInstants ==
    {T0 + d : d \in {0, Hours(SESSION_HOURS) + 1, Days(SESSION_RETENTION_DAYS) + 1}}

Next ==
    \/ /\ Len(auditLog) < MaxAudit
       /\ nextId <= MaxIds
       /\ \E p \in Passwords, up \in BOOLEAN : LoginView("a@x.com", p, "10.0.0.1", up)
    \/ /\ Len(auditLog) < MaxAudit
       /\ \E st \in SessionTokensSeen : LogoutView(st, "10.0.0.1")
    \/ /\ Len(auditLog) < MaxAudit
       /\ \E tok \in jwts : LogoutAllView(tok, "10.0.0.1")
    \/ /\ nextId <= MaxIds
       /\ \E rt \in RefreshTokensSeen, up \in BOOLEAN : RefreshTokenView(rt, up)
    \/ /\ Len(auditLog) < MaxAudit
       /\ nextId <= MaxIds
       /\ PasswordResetRequestView("a@x.com", "10.0.0.1")
    \/ /\ Len(auditLog) < MaxAudit
       /\ \E k \in ResetTokensSeen :
             PasswordResetConfirmView(k, "newpw789", "10.0.0.1")
    \/ /\ Len(auditLog) < MaxAudit
       /\ \E tok \in jwts, all \in BOOLEAN :
             ChangePasswordView(tok, "pw123456", "newpw789", all, "10.0.0.1")
    \/ /\ Len(auditLog) < MaxAudit
       /\ \E tok \in jwts, s \in sessions : RevokeSessionView(tok, s.id, "10.0.0.1")
    \/ \E tok \in jwts : ValidateAccessToken(tok) \/ ValidateAccessToken(Forged(tok))
    \/ CleanupExpiredSessions
    \/ Advance(SessionInstants)

Spec == Init /\ [][Next]_vars

\* Reset and verification tokens: a@x.com logs in and asks for tokens,
\* b@x.com asks for reset tokens too.
\* Instants: the start, the two sides of the 1 hour a reset token lives,
\* and after the 24 hours of a verification token.
TokenInstants ==
    {T0 + d : d \in {0, Hours(RESET_HOURS), Hours(RESET_HOURS) + 1,
                     Hours(VERIFY_HOURS) + 1}}

TokenNext ==
    \/ /\ Len(auditLog) < MaxAudit
       /\ nextId <= MaxTokens
       /\ LoginView("a@x.com", "pw123456", "10.0.0.1", TRUE)
    \/ /\ Len(auditLog) < MaxAudit
       /\ nextId <= MaxTokens
       /\ \E e \in Emails : PasswordResetRequestView(e, "10.0.0.1")
    \/ /\ Len(auditLog) < MaxAudit
       /\ \E k \in ResetTokensSeen, p \in Passwords :
             PasswordResetConfirmView(k, p, "10.0.0.1")
    \/ /\ nextId <= MaxTokens
       /\ CreateEmailVerification("a@x.com")
    \/ /\ Len(auditLog) < MaxAudit
       /\ \E k \in VerifyTokensSeen : EmailVerificationView(k, "10.0.0.1")
    \/ CleanupExpiredTokens
    \/ Advance(TokenInstants)

SpecTokens == Init /\ [][TokenNext]_vars

\* The rate limiter on its own, with the budgets of the two views that use
\* it and the default one. Instants: the start, the last tick inside 300
\* seconds, 300 seconds, and one hour.
RateConfigs ==
    {<<"10.0.0.1", "login_attempt", 10, Seconds(300)>>,
     <<"a@x.com", "password_reset_request", 3, Seconds(3600)>>,
     <<"a@x.com", "test_action", 5, Seconds(300)>>}

RateInstants == {T0 + d : d \in {0, Seconds(300) - 1, Seconds(300), Seconds(3600)}}

\* The number of calls allowed so far, over all keys.
AllowedCalls(calls) ==
    LET RECURSIVE Sum(_)
        Sum(K) == IF K = {} THEN 0
                  ELSE LET k == CHOOSE x \in K : TRUE
                       IN Len(calls[k]) + Sum(K \ {k})
    IN Sum(DOMAIN calls)

RateNext ==
    \/ /\ AllowedCalls(rateCalls) < MaxCalls
       /\ \E c \in RateConfigs : CheckRateLimit(c[1], c[2], c[3], c[4])
    \/ Advance(RateInstants)

SpecRate == Init /\ [][RateNext]_vars

----------------------------------------------------------------------------
(* What the audit log says about a user's run of failures *)

\* Index of the user's last login_success row (0: none).
LastSuccess(e) ==
    LET S == {i \in DOMAIN auditLog :
                auditLog[i].action = "login_success" /\ auditLog[i].user = e}
    IN IF S = {} THEN 0 ELSE CHOOSE i \in S : \A j \in S : j <= i

\* The wrong-password failures of the user since then, in order.
FailuresSinceSuccess(e) ==
    {i \in DOMAIN auditLog :
        /\ i > LastSuccess(e)
        /\ auditLog[i].user = e
        /\ auditLog[i].reason = "invalid_password"}

ConsecutiveFailures(e) == Cardinality(FailuresSinceSuccess(e))

\* When the k-th of them happened.
FailureTime(e, k) ==
    LET F == FailuresSinceSuccess(e)
        i == CHOOSE x \in F : Cardinality({y \in F : y <= x}) = k
    IN auditLog[i].timestamp

\* The step is a call of authenticate_user for e.
IsAuthStep(e) ==
    /\ Len(auditLog') = Len(auditLog) + 1
    /\ result'.op = "authenticate_user"
    /\ result'.email = e

----------------------------------------------------------------------------
(* C1: for every user, 5 consecutive wrong-password logins on the active,  *)
(* unlocked account set locked_until to the time of the 5th failure plus   *)
(* 30 minutes; fewer than 5 leave the account unlocked; and every login    *)
(* attempt made while now < locked_until, also with the right password,    *)
(* returns no user and the account-locked message and changes no row.      *)

C1_LockState ==
    \A e \in Emails :
        /\ ConsecutiveFailures(e) < 5 => users[e].locked_until = NoTime
        /\ ConsecutiveFailures(e) = 5 =>
              users[e].locked_until = FailureTime(e, 5) + Minutes(30)

C1_LockedAttempt ==
    \A e \in Emails, p \in Passwords :
        (/\ IsAuthStep(e)
         /\ result'.password = p
         /\ users[e].locked_until # NoTime
         /\ now < users[e].locked_until)
        => /\ result'.user = NoUser
           /\ result'.message = MSG_LOCKED
           /\ users' = users

C1_Lockout == [] C1_LockState /\ [][C1_LockedAttempt]_vars

\* A 6th attempt with the right password, made later but inside the lock
\* period, was refused as locked.
C1_Witness ==
    \E e \in Emails :
        /\ ConsecutiveFailures(e) = 5
        /\ result.op = "authenticate_user"
        /\ result.email = e
        /\ check_password(users[e], result.password)
        /\ auditLog[Len(auditLog)].user = e
        /\ auditLog[Len(auditLog)].timestamp > FailureTime(e, 5)
        /\ auditLog[Len(auditLog)].timestamp < users[e].locked_until
        /\ result.message = MSG_LOCKED

----------------------------------------------------------------------------
(* C2: every successful authenticate_user leaves the user's                *)
(* failed_login_attempts at 0 and locked_until NULL, whatever they were    *)
(* before; 4 failures followed by a success leave the account unlocked     *)
(* with the counter at 0.                                                   *)

C2_SuccessResets ==
    /\ (result.op = "authenticate_user" /\ result.user # NoUser) =>
          /\ users[result.user].failed_login_attempts = 0
          /\ users[result.user].locked_until = NoTime
    /\ \A e \in Emails :
          (LastSuccess(e) # 0 /\ \A i \in DOMAIN auditLog :
                                    i > LastSuccess(e) => auditLog[i].user # e)
          => /\ users[e].failed_login_attempts = 0
             /\ users[e].locked_until = NoTime

\* 4 wrong passwords for b@x.com, then the right one.
C2_Witness ==
    /\ Len(auditLog) = 5
    /\ \A i \in 1..4 : /\ auditLog[i].user = "b@x.com"
                       /\ auditLog[i].reason = "invalid_password"
    /\ auditLog[4].count = 4
    /\ auditLog[5].user = "b@x.com"
    /\ auditLog[5].action = "login_success"
    /\ users["b@x.com"].failed_login_attempts = 0
    /\ users["b@x.com"].locked_until = NoTime

----------------------------------------------------------------------------
(* Tokens minted before a password change *)

\* Index of the audit row of the user's last password change or reset
\* (0: none).
PasswordChangeRow(e) ==
    LET S == {i \in DOMAIN auditLog :
                /\ auditLog[i].user = e
                /\ auditLog[i].action \in {"password_changed",
                                           "password_reset_completed"}}
    IN IF S = {} THEN 0 ELSE CHOOSE i \in S : \A j \in S : j <= i

\* The token was minted for its user before that change.
MintedBeforeChange(tok) == tok.minted_after < PasswordChangeRow(tok.email)

\* The token's signature is the service's and its exp has not passed.
SignedAndUnexpired(tok) == tok.signature = "JWT_SECRET" /\ Seconds(tok.exp) > now

----------------------------------------------------------------------------
(* C3: after a successful ChangePassword or ResetPassword of a user, every  *)
(* validation of an access token minted for the user before the change,    *)
(* with a valid signature and expiry, fails with the reason                 *)
(* TokenInvalidatedByPasswordChange; and a login with the new password      *)
(* after the change succeeds with a session id no other session has.        *)

C3_PreChangeTokensInvalidated ==
    /\ (/\ result.op = "validate"
        /\ MintedBeforeChange(result.token)
        /\ SignedAndUnexpired(result.token))
       => (~result.ok /\ result.message = MSG_PASSWORD_CHANGED)
    /\ (/\ result.op \in {"login", "login_ok"}
        /\ PasswordChangeRow(result.email) # 0
        /\ check_password(users[result.email], result.password))
       => /\ result.op = "login_ok"
          /\ Cardinality({s \in sessions : s.id = result.session_id}) = 1
          /\ \A tok \in jwts : tok.session_id = result.session_id
                                  => ~MintedBeforeChange(tok)

----------------------------------------------------------------------------
(* C4: once a user's password_changed_at has been bumped by ChangePassword  *)
(* or ResetPassword, no validation of an access token minted for the user   *)
(* before the bump accepts it, at any later time and for whatever reason,   *)
(* the caller's retained session and a mint in the same epoch second as     *)
(* the change included.                                                     *)

C4_NoPreChangeTokenAccepted ==
    (result.op = "validate" /\ MintedBeforeChange(result.token)) => ~result.ok

----------------------------------------------------------------------------
(* C5: a successful Logout(session_token) leaves that session revoked;      *)
(* from then on the session is never active again, every validation of an  *)
(* access token bound to it fails and every refresh with its refresh token *)
(* fails; a Logout with the session token of a session that is no longer   *)
(* active fails with "Invalid session" and changes nothing.                 *)

\* The step is a request or a job returning result', not the passing of time.
Returned(op) == now' = now /\ result'.op = op

\* The step is a successful logout, and the session it named is revoked.
C5_LogoutRevokes ==
    (Returned("logout") /\ result'.status = 200)
    => \E s \in sessions :
          /\ s.session_token = result'.session_token
          /\ s.status = "active"
          /\ [s EXCEPT !.status = "revoked", !.last_accessed = now'] \in sessions'

\* A session that is not active keeps its tokens and is never active again.
C5_NeverActiveAgain ==
    \A s \in sessions, s2 \in sessions' :
        (s.status # "active" /\ s2.id = s.id)
        => /\ s2.status # "active"
           /\ s2.session_token = s.session_token
           /\ s2.refresh_token = s.refresh_token

\* What is presented for a session that is not active is refused.
C5_Refused ==
    \A s \in sessions :
        s.status # "active" =>
          /\ (Returned("validate") /\ result'.token.session_id = s.id)
             => ~result'.ok
          /\ (Returned("refresh") /\ result'.refresh_token = s.refresh_token)
             => /\ result'.status = 400
                /\ result'.minted = {}
                /\ sessions' = sessions
                /\ jwts' = jwts
          /\ (Returned("logout") /\ result'.session_token = s.session_token)
             => /\ result'.status = 400
                /\ result'.message = "Invalid session"
                /\ UNCHANGED <<now, users, sessions, resetTokens, verifications,
                               auditLog, cache, rateCalls, jwts, nextId, procs>>

C5_LogoutIsFinal ==
    /\ [][C5_LogoutRevokes]_vars
    /\ [][C5_NeverActiveAgain]_vars
    /\ [][C5_Refused]_vars

\* A second Logout with the session token of a session that a Logout had
\* revoked came back as "Invalid session".
C5_Witness ==
    /\ result.op = "logout"
    /\ result.status = 400
    /\ result.message = "Invalid session"
    /\ \E s \in sessions : /\ s.session_token = result.session_token
                           /\ s.status = "revoked"
    /\ \E i \in DOMAIN auditLog : auditLog[i].action = "logout"

----------------------------------------------------------------------------
(* C6: a session is created active, and under every operation a session    *)
(* whose status is expired stays expired and a session whose status is     *)
(* revoked stays revoked.                                                   *)

C6_CreatedActive ==
    \A s2 \in sessions' :
        (\A s \in sessions : s.id # s2.id) => s2.status = "active"

C6_Absorbing ==
    \A s \in sessions, s2 \in sessions' :
        (s2.id = s.id /\ s.status \in {"expired", "revoked"})
        => s2.status = s.status

C6_TerminalStatesAbsorb == [][C6_CreatedActive /\ C6_Absorbing]_vars

----------------------------------------------------------------------------
(* C7: ResetPassword(token, new_password) with a valid token (known,        *)
(* unused, at most 1 hour old) sets the new password, marks the token used  *)
(* and leaves its user without an active session; with an unknown, used or  *)
(* more than 1 hour old token it fails and changes no password, no          *)
(* password_changed_at and no session; a used token stays used, so a token  *)
(* never resets a password twice.                                           *)

\* The rows of this token value that are valid now.
ValidResetToken(token) ==
    {k \in resetTokens : /\ k.token = token
                         /\ ~k.is_used
                         /\ now <= k.created_at + Hours(1)}

C7_ValidTokenResets ==
    (Returned("reset_confirm") /\ ValidResetToken(result'.token) # {})
    => \E k \in ValidResetToken(result'.token) :
          /\ result'.status = 200
          /\ check_password(users'[k.user], result'.new_password)
          /\ users'[k.user].password_changed_at = now
          /\ [k EXCEPT !.is_used = TRUE] \in resetTokens'
          /\ k \notin resetTokens'
          /\ \A s \in sessions' : s.user = k.user => s.status # "active"

C7_InvalidTokenFails ==
    (Returned("reset_confirm") /\ ValidResetToken(result'.token) = {})
    => /\ result'.status = 400
       /\ users' = users
       /\ sessions' = sessions
       /\ resetTokens' = resetTokens

C7_UsedStaysUsed ==
    \A k \in resetTokens, k2 \in resetTokens' :
        (k.is_used /\ k2.token = k.token) => k2.is_used

C7_SingleUse ==
    /\ [][C7_ValidTokenResets]_vars
    /\ [][C7_InvalidTokenFails]_vars
    /\ [][C7_UsedStaysUsed]_vars

\* The only reset token of a user, used by a completed reset and not yet an
\* hour old, was presented again and refused.
C7_Witness ==
    /\ result.op = "reset_confirm"
    /\ result.status = 400
    /\ \E k \in resetTokens :
          /\ k.token = result.token
          /\ k.is_used
          /\ now <= k.created_at + Hours(1)
          /\ \A j \in resetTokens : j.user = k.user => j = k
          /\ \E i \in DOMAIN auditLog :
                /\ auditLog[i].action = "password_reset_completed"
                /\ auditLog[i].user = k.user

----------------------------------------------------------------------------
(* C8: CreateReset for a user marks every earlier reset token of the user   *)
(* used, CreateVerification does the same for verification tokens, and in   *)
(* every state of a serial execution a user has at most one valid (unused,  *)
(* unexpired) token of each kind, the newest one.                           *)

\* The token is unused and unexpired now.
ValidNow(k) == ~k.is_used /\ ~(now > k.expires_at)

\* A valid token of the table is its user's only valid one and the newest.
OnlyNewestValid(ks) ==
    \A k \in ks, j \in ks :
        (ValidNow(k) /\ j.user = k.user /\ j # k)
        => (~ValidNow(j) /\ j.token[2] < k.token[2] /\ j.created_at <= k.created_at)

C8_AtMostOneValid == OnlyNewestValid(resetTokens) /\ OnlyNewestValid(verifications)

C8_CreateMarksUsed ==
    /\ (Returned("reset_request") /\ resetTokens' # resetTokens)
       => /\ \E k \in resetTokens' \ resetTokens :
                k.user = result'.email /\ ~k.is_used /\ k.created_at = now
          /\ \A k \in resetTokens : k.user = result'.email =>
                [k EXCEPT !.is_used = TRUE] \in resetTokens'
    /\ Returned("create_verification")
       => /\ \E k \in verifications' \ verifications :
                k.user = result'.email /\ ~k.is_used /\ k.token = result'.token
          /\ \A k \in verifications : k.user = result'.email =>
                [k EXCEPT !.is_used = TRUE] \in verifications'

C8_OnlyNewestTokenValid == [] C8_AtMostOneValid /\ [][C8_CreateMarksUsed]_vars

\* A second reset token was created for a user while the first was still
\* unexpired: the first is used, the second valid.
C8_Witness ==
    /\ result.op = "reset_request"
    /\ \E k \in resetTokens, j \in resetTokens :
          /\ k.user = result.email
          /\ j.user = result.email
          /\ j.token[2] < k.token[2]
          /\ ValidNow(k)
          /\ j.is_used
          /\ ~(now > j.expires_at)
    /\ \A i \in DOMAIN auditLog : auditLog[i].action = "password_reset_requested"

----------------------------------------------------------------------------
(* C9: a call of check_rate_limit for a key with limit L and window W is    *)
(* rejected when L calls for the key were allowed within the last W         *)
(* seconds; it is allowed, with the counter starting again at 1, when no    *)
(* call for the key was allowed within the last W seconds; and it leaves    *)
(* the counters of all other keys as they were.                             *)

\* The calls for `key` allowed within the last `window` ticks.
AllowedWithin(key, window) ==
    IF key \in DOMAIN rateCalls
    THEN {i \in DOMAIN rateCalls[key] : rateCalls[key][i] > now - window}
    ELSE {}

C9_LimitPerWindow ==
    Returned("check_rate_limit") =>
      LET key == result'.key IN
      /\ Cardinality(AllowedWithin(key, result'.window)) >= result'.limit
            => (~result'.allowed /\ cache' = cache)
      /\ AllowedWithin(key, result'.window) = {}
            => (result'.allowed /\ cache'[key].count = 1)
      /\ \A k \in DOMAIN cache' : k # key => (k \in DOMAIN cache /\ cache'[k] = cache[k])
      /\ \A k \in DOMAIN cache : k \in DOMAIN cache'

C9_RateLimit == [][C9_LimitPerWindow]_vars

\* The 11th login attempt of an address within 300 seconds of the 10 before
\* it was rejected, with the counter of another key in the cache.
C9_Witness ==
    /\ result.op = "check_rate_limit"
    /\ result.key = RateKey("login_attempt", "10.0.0.1")
    /\ result.limit = 10
    /\ ~result.allowed
    /\ Len(rateCalls[result.key]) = 10
    /\ rateCalls[result.key][1] > now - Seconds(300)
    /\ now > rateCalls[result.key][10]
    /\ Cardinality(DOMAIN cache) > 1

----------------------------------------------------------------------------
(* C10: the failed-attempt increment and the lock check are atomic per      *)
(* row: when k wrong-password logins of an unlocked user, concurrent or     *)
(* not, have all finished, failed_login_attempts is k higher than at the    *)
(* start (0), and the account is locked when that count is at least 5.      *)

C10_AtomicIncrement ==
    \A e \in Emails :
        (/\ procs = <<>>
         /\ \A i \in DOMAIN auditLog : /\ auditLog[i].user = e
                                       /\ auditLog[i].reason = "invalid_password")
        => /\ users[e].failed_login_attempts = Len(auditLog)
           /\ Len(auditLog) >= 5 => users[e].locked_until # NoTime

----------------------------------------------------------------------------
(* C11: when the Organization Directory call fails during a refresh, the    *)
(* refresh fails and nothing of the rotation is persisted: the stored       *)
(* session_token, refresh_token and expires_at of every session are as      *)
(* before the call, so the refresh token the caller holds stays usable.     *)

C11_FailedRefreshStep ==
    (Returned("refresh") /\ result'.message = "Failed to refresh session")
    => /\ sessions' = sessions
       /\ \E s \in sessions' : /\ s.refresh_token = result'.refresh_token
                               /\ s.status = "active"

C11_DirectoryFailurePersistsNothing == [][C11_FailedRefreshStep]_vars

----------------------------------------------------------------------------
(* C12: ValidateAccessToken returns the claims of a token carrying a        *)
(* session_id only if the signature and the expiry of the token are valid,  *)
(* the session it names exists with status active and now <= expires_at,    *)
(* and the user's password_changed_at (as an epoch second) is not newer     *)
(* than the snapshot in the token. A bad signature gives InvalidToken and   *)
(* an expired token TokenExpired whatever the session is; a missing or      *)
(* non-active session gives SessionNotFound; an active session past its     *)
(* expires_at gives SessionExpired.                                         *)

\* Validation of the tokens handed out, around logout, password change and
\* refresh. Instants: the start, the next epoch second, the expiry of an
\* access token and the expiry of a session.
ValidateInstants ==
    {T0 + d : d \in {0, Seconds(1), Hours(JWT_HOURS), Hours(SESSION_HOURS) + 1}}

ValidateNext ==
    \/ /\ Len(auditLog) < MaxAudit
       /\ nextId <= MaxIds
       /\ LoginView("a@x.com", "pw123456", "10.0.0.1", TRUE)
    \/ /\ Len(auditLog) < MaxAudit
       /\ \E st \in SessionTokensSeen : LogoutView(st, "10.0.0.1")
    \/ /\ nextId <= MaxIds
       /\ \E rt \in RefreshTokensSeen : RefreshTokenView(rt, TRUE)
    \/ /\ Len(auditLog) < MaxAudit
       /\ \E tok \in jwts, all \in BOOLEAN :
             ChangePasswordView(tok, "pw123456", "newpw789", all, "10.0.0.1")
    \/ \E tok \in jwts : ValidateAccessToken(tok) \/ ValidateAccessToken(Forged(tok))
    \/ Advance(ValidateInstants)

SpecValidate == Init /\ [][ValidateNext]_vars

\* The active sessions a token names.
ActiveSessionsOf(tok) ==
    {s \in sessions : s.id = tok.session_id /\ s.status = "active"}

C12_ValidateStep ==
    Returned("validate") =>
      LET tok == result'.token
          signed == tok.signature = "JWT_SECRET"
          unexpired == now < Seconds(tok.exp)
          live == ActiveSessionsOf(tok)
      IN
      /\ result'.ok =>
            /\ signed
            /\ unexpired
            /\ \E s \in live :
                  /\ now <= s.expires_at
                  /\ EpochSecond(users[s.user].password_changed_at)
                        <= tok.password_changed_at
      /\ result'.ok <=> result'.message = MSG_VALID
      /\ ~signed => result'.message = MSG_INVALID_TOKEN
      /\ (signed /\ ~unexpired) => result'.message = MSG_TOKEN_EXPIRED
      /\ (signed /\ unexpired /\ live = {}) => result'.message = MSG_SESSION_NOT_FOUND
      /\ (signed /\ unexpired /\ \E s \in live : now > s.expires_at)
            => result'.message = MSG_SESSION_EXPIRED

C12_ValidateOnlyLiveTokens == [][C12_ValidateStep]_vars

\* A token was refused with TokenExpired although its session had been
\* revoked, while a token of the same user minted later was still good.
C12_Witness ==
    /\ result.op = "validate"
    /\ result.message = MSG_TOKEN_EXPIRED
    /\ result.token.signature = "JWT_SECRET"
    /\ ActiveSessionsOf(result.token) = {}
    /\ \E tok \in jwts : validate_jwt_token(tok, sessions, users, now).ok

----------------------------------------------------------------------------
(* C13: authenticate_user returns the same outcome (no user, "Invalid       *)
(* credentials") for an email without a user row and for an active,         *)
(* unlocked user with a wrong password; only the audit row differs:         *)
(* reason user_not_found with no user, against reason invalid_password      *)
(* with the user and the new failed_attempts.                               *)

\* Logins of a@x.com and of an address that has no row.
EnumerationNext ==
    \/ /\ Len(auditLog) < MaxAuditAuth
       /\ \E e \in {"a@x.com", UnknownEmail}, p \in Passwords :
             AuthenticateUser(e, p, "10.0.0.1")
    \/ Advance(AuthInstants)

SpecEnumeration == AuthInit /\ [][EnumerationNext]_vars

\* The users for whom `p` is a wrong password and who are active and unlocked.
WrongPasswordUsers(p) ==
    {e \in DOMAIN users : /\ users[e].is_active
                          /\ ~is_locked(users[e], now)
                          /\ ~check_password(users[e], p)}

C13_AbsentStep ==
    (Returned("authenticate_user") /\ result'.email \notin DOMAIN users) =>
      /\ result'.user = NoUser
      /\ result'.message = MSG_INVALID_CREDENTIALS
      /\ users' = users
      /\ auditLog'[Len(auditLog')].reason = "user_not_found"
      /\ auditLog'[Len(auditLog')].user = NoUser
      /\ \A p \in Passwords : \A e \in WrongPasswordUsers(p) :
            LET r == authenticate_user(users, e, p, "10.0.0.1", now) IN
            /\ r.user = result'.user
            /\ r.message = result'.message

C13_WrongPasswordStep ==
    (/\ Returned("authenticate_user")
     /\ result'.email \in WrongPasswordUsers(result'.password)) =>
      LET r == authenticate_user(users, UnknownEmail, result'.password, "10.0.0.1", now)
          row == auditLog'[Len(auditLog')]
      IN
      /\ result'.user = r.user
      /\ result'.message = r.message
      /\ row.reason = "invalid_password"
      /\ row.user = result'.email
      /\ row.count = users'[result'.email].failed_login_attempts
      /\ row.count = users[result'.email].failed_login_attempts + 1
      /\ row # r.event

C13_NoEnumeration == [][C13_AbsentStep /\ C13_WrongPasswordStep]_vars

\* A login for the unknown address has just answered, right after a wrong
\* password for a@x.com, who is still active and unlocked.
C13_Witness ==
    /\ result.op = "authenticate_user"
    /\ result.email = UnknownEmail
    /\ result.user = NoUser
    /\ result.message = MSG_INVALID_CREDENTIALS
    /\ Len(auditLog) >= 2
    /\ auditLog[Len(auditLog)].reason = "user_not_found"
    /\ auditLog[Len(auditLog) - 1].reason = "invalid_password"
    /\ "a@x.com" \in WrongPasswordUsers("newpw789")

----------------------------------------------------------------------------
(* C14: a password-reset request that passes the rate limiter gets the     *)
(* same response whether the email belongs to an active user, an inactive  *)
(* user or no user; a reset token and a password_reset_requested audit row *)
(* are created only when an active user has that email, and otherwise no   *)
(* store (users, sessions, tokens, audit log) is changed.                  *)

\* Reset requests for an active user, a user who may be inactive and an
\* address without a row, within one rate-limit window and after it.
ResetRequestInstants == {T0 + d : d \in {0, Seconds(3600)}}

ResetRequestNext ==
    \/ /\ Len(auditLog) < MaxAudit
       /\ nextId <= MaxTokens
       /\ \E e \in Emails \cup {UnknownEmail} : PasswordResetRequestView(e, "10.0.0.1")
    \/ Advance(ResetRequestInstants)

SpecResetRequest == AuthInit /\ [][ResetRequestNext]_vars

HasActiveUser(email) == email \in DOMAIN users /\ users[email].is_active

C14_AcceptedStep ==
    (Returned("reset_request") /\ result'.status # 429) =>
      LET e == result'.email IN
      /\ result'.status = 200
      /\ result'.message = MSG_RESET_ACCEPTED
      /\ users' = users
      /\ sessions' = sessions
      /\ verifications' = verifications
      /\ HasActiveUser(e) =>
            /\ Len(auditLog') = Len(auditLog) + 1
            /\ SubSeq(auditLog', 1, Len(auditLog)) = auditLog
            /\ auditLog'[Len(auditLog')].action = "password_reset_requested"
            /\ auditLog'[Len(auditLog')].user = e
            /\ \E k \in resetTokens' \ resetTokens :
                  /\ k.user = e
                  /\ token_is_valid(k, now)
                  /\ \A j \in resetTokens' \ resetTokens :
                        j.token = k.token \/ j.is_used
      /\ ~HasActiveUser(e) =>
            /\ resetTokens' = resetTokens
            /\ auditLog' = auditLog

C14_SameResponse == [][C14_AcceptedStep]_vars

\* The request for the address without a row has just been accepted, after
\* one for the inactive a@x.com and one for the active b@x.com, whose token
\* and audit row are the only ones.
C14_Witness ==
    /\ result.op = "reset_request"
    /\ result.email = UnknownEmail
    /\ result.status = 200
    /\ ~users["a@x.com"].is_active
    /\ RateKey("password_reset_request", "a@x.com") \in DOMAIN cache
    /\ RateKey("password_reset_request", UnknownEmail) \in DOMAIN cache
    /\ Len(auditLog) = 1
    /\ auditLog[1].user = "b@x.com"
    /\ \A k \in resetTokens : k.user = "b@x.com"
    /\ resetTokens # {}

----------------------------------------------------------------------------
(* C15: LogoutAll of a user sets every session of that user with status    *)
(* active to revoked, leaves the sessions of every other user unchanged,   *)
(* returns and logs (logout_all) a count equal to the number of sessions   *)
(* it moved to revoked; afterwards every access token bound to one of      *)
(* that user's sessions is rejected by ValidateAccessToken.                *)

\* Two users with up to three sessions between them, logging in and
\* logging out everywhere; instants: the start and the expiry of the first
\* access tokens.
LogoutAllInstants == {T0 + d : d \in {0, Hours(JWT_HOURS)}}

LogoutAllNext ==
    \/ /\ Len(auditLog) < MaxAudit + 1
       /\ nextId <= MaxIds + 1
       /\ \E e \in Emails : LoginView(e, "pw123456", "10.0.0.1", TRUE)
    \/ /\ Len(auditLog) < MaxAudit + 1
       /\ \E tok \in jwts : LogoutAllView(tok, "10.0.0.1")
    \/ \E tok \in jwts : ValidateAccessToken(tok)
    \/ Advance(LogoutAllInstants)

SpecLogoutAll == Init /\ [][LogoutAllNext]_vars

ActiveSessionsOfUser(u) == {s \in sessions : s.user = u /\ s.status = "active"}

C15_LogoutAllStep ==
    (Returned("logout_all") /\ result'.status = 200) =>
      LET u == result'.token.email
          moved == ActiveSessionsOfUser(u)
          row == auditLog'[Len(auditLog')]
      IN
      /\ sessions' = (sessions \ moved)
                        \cup {[s EXCEPT !.status = "revoked"] : s \in moved}
      /\ \A s \in sessions' : s.user = u => s.status # "active"
      /\ \A s \in sessions : s.user # u => s \in sessions'
      /\ result'.revoked_sessions = Cardinality(moved)
      /\ Len(auditLog') = Len(auditLog) + 1
      /\ row.action = "logout_all"
      /\ row.user = u
      /\ row.count = Cardinality(moved)
      /\ \A tok \in jwts' :
            tok.email = u => ~validate_jwt_token(tok, sessions', users', now).ok

\* A token bound to a revoked session is rejected in every later state.
C15_RevokedTokensRejected ==
    \A tok \in jwts :
        (\E s \in sessions : s.id = tok.session_id /\ s.status = "revoked")
            => ~validate_jwt_token(tok, sessions, users, now).ok

C15_LogoutAllRevokes == [] C15_RevokedTokensRejected /\ [][C15_LogoutAllStep]_vars

\* a@x.com has logged out everywhere with two sessions active, while the
\* session of b@x.com stayed active.
C15_Witness ==
    /\ result.op = "logout_all"
    /\ result.status = 200
    /\ result.token.email = "a@x.com"
    /\ result.revoked_sessions = 2
    /\ Cardinality({s \in sessions : s.user = "a@x.com" /\ s.status = "revoked"}) = 2
    /\ ActiveSessionsOfUser("b@x.com") # {}

----------------------------------------------------------------------------
(* C16: ChangePassword with a correct current password and                 *)
(* logout_all_devices set, called from session S, leaves S active and      *)
(* every other session of the user that was active revoked; without        *)
(* logout_all_devices it changes no session. ChangePassword with a wrong   *)
(* current password, or with a new password equal to the current one, is   *)
(* rejected and leaves the password hash, password_changed_at and all      *)
(* sessions unchanged.                                                     *)

\* Password changes of two users holding up to MaxIds sessions; instants:
\* the start and the next second.
ChangePasswordInstants == {T0 + d : d \in {0, Seconds(1)}}

ChangePasswordNext ==
    \/ /\ Len(auditLog) < MaxAudit
       /\ nextId <= MaxIds
       /\ \E e \in Emails, p \in Passwords : LoginView(e, p, "10.0.0.1", TRUE)
    \/ /\ Len(auditLog) < MaxAudit
       /\ \E tok \in jwts, cur \in Passwords, new \in Passwords, all \in BOOLEAN :
             ChangePasswordView(tok, cur, new, all, "10.0.0.1")
    \/ Advance(ChangePasswordInstants)

SpecChangePassword == Init /\ [][ChangePasswordNext]_vars

C16_ChangePasswordStep ==
    Returned("change_password") =>
      LET r == result'
          u == r.token.email
          S == r.token.session_id
          others == {s \in sessions : s.user = u /\ s.status = "active" /\ s.id # S}
      IN
      /\ (\/ ~check_password(users[u], r.current_password)
          \/ r.new_password = r.current_password
          \/ check_password(users[u], r.new_password))
            => r.status # 200
      /\ r.status # 200 => (users' = users /\ sessions' = sessions)
      /\ r.status = 200 =>
            /\ check_password(users'[u], r.new_password)
            /\ \A e \in DOMAIN users : e # u => users'[e] = users[e]
            /\ \E s \in sessions' : s.id = S /\ s.user = u /\ s.status = "active"
            /\ r.logout_all =>
                  sessions' = (sessions \ others)
                                 \cup {[s EXCEPT !.status = "revoked"] : s \in others}
            /\ ~r.logout_all => sessions' = sessions

C16_ChangePasswordFrame == [][C16_ChangePasswordStep]_vars

\* The password was changed from one of two active sessions of a@x.com with
\* logout_all_devices set: the other one is revoked, the caller's is active.
C16_Witness ==
    /\ result.op = "change_password"
    /\ result.status = 200
    /\ result.logout_all
    /\ \E s \in sessions : s.id = result.token.session_id /\ s.status = "active"
    /\ \E s \in sessions : /\ s.id # result.token.session_id
                           /\ s.user = result.token.email
                           /\ s.status = "revoked"

----------------------------------------------------------------------------
(* C17: a user's failed_login_attempts is lowered and a set locked_until   *)
(* is cleared or shortened only by a successful authenticate_user for      *)
(* that user, under any interleaving of operations.                        *)

\* The step is an authenticate_user that succeeded for e: it wrote the
\* login_success row of e.
SucceededFor(e) ==
    \E i \in (Len(auditLog) + 1)..Len(auditLog') :
        auditLog'[i].action = "login_success" /\ auditLog'[i].user = e

C17_CounterStep ==
    \A e \in DOMAIN users :
        (\/ users'[e].failed_login_attempts < users[e].failed_login_attempts
         \/ /\ users[e].locked_until # NoTime
            /\ \/ users'[e].locked_until = NoTime
               \/ users'[e].locked_until < users[e].locked_until)
        => SucceededFor(e)

C17_OnlySuccessLowers == [][C17_CounterStep]_vars

----------------------------------------------------------------------------
(* C18: a verification token is single-use and expiring: VerifyEmail with  *)
(* a valid token sets the user's is_verified and marks the token used;     *)
(* VerifyEmail with an unknown token, a used token or a token older than   *)
(* 24 hours fails and changes neither is_verified nor any token.           *)

\* The stored verification tokens with this value that are unused and at
\* most 24 hours old.
FreshVerifications(token) ==
    {k \in verifications : /\ k.token = token
                           /\ ~k.is_used
                           /\ now - k.created_at <= Hours(24)}

C18_VerifyStep ==
    Returned("verify_email") =>
      LET fresh == FreshVerifications(result'.token) IN
      /\ fresh # {} =>
            /\ result'.status = 200
            /\ \A k \in fresh :
                  /\ users'[k.user].is_verified
                  /\ verifications' = (verifications \ {k})
                                         \cup {[k EXCEPT !.is_used = TRUE]}
      /\ fresh = {} =>
            /\ result'.status = 400
            /\ users' = users
            /\ verifications' = verifications

\* No step makes a used verification token unused again.
C18_UsedStaysUsed ==
    \A k \in verifications : \A j \in verifications' :
        (k.is_used /\ j.token = k.token) => j.is_used

C18_VerificationSingleUse == [][C18_VerifyStep /\ C18_UsedStaysUsed]_vars

\* The token that verified a@x.com was presented a second time, within its
\* 24 hours, and refused.
C18_Witness ==
    /\ result.op = "verify_email"
    /\ result.status = 400
    /\ users["a@x.com"].is_verified
    /\ \E k \in verifications : /\ k.token = result.token
                                /\ k.is_used
                                /\ now - k.created_at <= Hours(24)
    /\ \E i \in DOMAIN auditLog : auditLog[i].action = "email_verified"

----------------------------------------------------------------------------
(* C19: a successful refresh of a live session keeps the session's id,     *)
(* owner and status active, replaces session_token and refresh_token by    *)
(* fresh values, sets expires_at = now + 24 h and returns the new pair     *)
(* with an access token; the refresh token that was presented is never     *)
(* accepted again: a later refresh with it fails with "Invalid refresh     *)
(* token".                                                                 *)

\* Logins, refreshes with the directory up or down, and logouts of one
\* user; instants: the start, the next second and after the 24 hours of a
\* session.
RefreshInstants == {T0 + d : d \in {0, Seconds(1), Hours(SESSION_HOURS) + 1}}

RefreshNext ==
    \/ /\ Len(auditLog) < MaxAudit
       /\ nextId <= MaxIds + 1
       /\ LoginView("a@x.com", "pw123456", "10.0.0.1", TRUE)
    \/ /\ nextId <= MaxIds + 1
       /\ \E rt \in RefreshTokensSeen, up \in BOOLEAN : RefreshTokenView(rt, up)
    \/ /\ Len(auditLog) < MaxAudit
       /\ \E st \in SessionTokensSeen : LogoutView(st, "10.0.0.1")
    \/ Advance(RefreshInstants)

SpecRefresh == Init /\ [][RefreshNext]_vars

HeldBy(rt) == {s \in sessions : s.refresh_token = rt}

C19_RefreshStep ==
    (Returned("refresh") /\ result'.status = 200) =>
      \E s \in HeldBy(result'.refresh_token) :
        /\ s.status = "active"
        /\ now <= s.expires_at
        /\ \E s2 \in sessions' :
              /\ sessions' = (sessions \ {s}) \cup {s2}
              /\ s2.id = s.id
              /\ s2.user = s.user
              /\ s2.created_at = s.created_at
              /\ s2.status = "active"
              /\ s2.expires_at = now + Hours(24)
              /\ \A x \in sessions : /\ x.session_token # s2.session_token
                                     /\ x.refresh_token # s2.refresh_token
              /\ s2.refresh_token \notin RefreshTokensSeen
              /\ result'.pair = [session_token |-> s2.session_token,
                                 refresh_token |-> s2.refresh_token]
              /\ \E tok \in result'.minted :
                    /\ tok.session_id = s.id
                    /\ tok \in jwts'
                    /\ validate_jwt_token(tok, sessions', users', now).ok

\* A refresh token no session holds is refused and changes nothing.
C19_UnheldRefused ==
    (Returned("refresh") /\ HeldBy(result'.refresh_token) = {}) =>
      /\ result'.message = "Invalid refresh token"
      /\ sessions' = sessions

\* A refresh token handed out before that no session holds is held by none
\* after any step.
C19_SpentStaysSpent ==
    \A rt \in RefreshTokensSeen :
        HeldBy(rt) = {} => \A s \in sessions' : s.refresh_token # rt

C19_RefreshRotates ==
    [][C19_RefreshStep /\ C19_UnheldRefused /\ C19_SpentStaysSpent]_vars

\* The refresh token of the login was presented again after a refresh had
\* succeeded with it a second after the login, and was refused; the session
\* lives on under the rotated pair.
C19_Witness ==
    /\ result.op = "refresh"
    /\ result.message = "Invalid refresh token"
    /\ result.refresh_token = generate_tokens(1).refresh_token
    /\ \E s \in sessions : /\ s.id = 1
                           /\ s.status = "active"
                           /\ s.refresh_token = generate_tokens(2).refresh_token
                           /\ \E tok \in jwts : /\ tok.session_id = s.id
                                                /\ tok.iat > EpochSecond(s.created_at)

----------------------------------------------------------------------------
(* C20: a login attempt on an account whose locked_until is in the future  *)
(* fails with the account-locked message without the password being        *)
(* verified, leaves failed_login_attempts, locked_until and last_login     *)
(* unchanged, and appends one login_failed audit row with reason           *)
(* account_locked.                                                         *)

C20_LockedLoginStep ==
    \A e \in Emails :
        (/\ IsAuthStep(e)
         /\ users[e].locked_until # NoTime
         /\ users[e].locked_until > now)
        => /\ result'.user = NoUser
           /\ result'.message = MSG_LOCKED
           /\ users'[e].failed_login_attempts = users[e].failed_login_attempts
           /\ users'[e].locked_until = users[e].locked_until
           /\ users'[e].last_login = users[e].last_login
           /\ auditLog' = Append(auditLog,
                                 log_event("login_failed", "10.0.0.1", e,
                                           "account_locked", -1, now))
           /\ \A p \in Passwords :
                 authenticate_user(users, e, p, "10.0.0.1", now)
                    = authenticate_user(users, e, result'.password, "10.0.0.1", now)

C20_LockedLoginChangesNothing == [][C20_LockedLoginStep]_vars

\* An attempt with a wrong password was refused as locked, and the count
\* is still the 5 that locked the account.
C20_Witness ==
    \E e \in Emails :
        /\ result.op = "authenticate_user"
        /\ result.email = e
        /\ result.message = MSG_LOCKED
        /\ ~check_password(users[e], result.password)
        /\ users[e].failed_login_attempts = 5
        /\ users[e].locked_until > now
        /\ users[e].last_login = NoTime
        /\ auditLog[Len(auditLog)].reason = "account_locked"
        /\ auditLog[Len(auditLog)].user = e

----------------------------------------------------------------------------
(* C21: a login attempt on an account with is_active = false that is not   *)
(* locked fails with "Account is inactive" whatever the password, changes  *)
(* no field of the user row and creates no session; when the account is    *)
(* both locked and inactive the lock check comes first and the outcome is  *)
(* the account-locked one.                                                 *)

\* is_active has no writer in this service: the column is set from outside
\* (registration, administration). The row of `e` is deactivated.
DeactivateUser(e) ==
    /\ users[e].is_active
    /\ users' = [users EXCEPT ![e].is_active = FALSE]
    /\ result' = [op |-> "deactivate", email |-> e]
    /\ UNCHANGED <<now, sessions, resetTokens, verifications, auditLog, cache,
                   rateCalls, jwts, nextId, procs>>

\* Logins of a@x.com, who may be deactivated before or after the account
\* locks.
InactiveNext ==
    \/ /\ Len(auditLog) < MaxAuditAuth
       /\ nextId <= MaxIds
       /\ \E p \in Passwords : LoginView("a@x.com", p, "10.0.0.1", TRUE)
    \/ DeactivateUser("a@x.com")
    \/ Advance(AuthInstants)

SpecInactive == Init /\ [][InactiveNext]_vars

C21_InactiveLoginStep ==
    (/\ Returned("login")
     /\ result'.status # 429
     /\ result'.email \in DOMAIN users
     /\ ~users[result'.email].is_active) =>
      LET e == result'.email
          locked == users[e].locked_until # NoTime /\ users[e].locked_until > now
          row == auditLog'[Len(auditLog')]
      IN
      /\ result'.status = 401
      /\ result'.message = IF locked THEN MSG_LOCKED ELSE MSG_INACTIVE
      /\ users' = users
      /\ sessions' = sessions
      /\ jwts' = jwts
      /\ Len(auditLog') = Len(auditLog) + 1
      /\ row.action = "login_failed"
      /\ row.user = e
      /\ row.reason = IF locked THEN "account_locked" ELSE "account_inactive"

\* A login of an inactive account never answers as a successful one.
C21_NoInactiveSuccess ==
    Returned("login_ok") => users[result'.email].is_active

C21_InactiveLogin == [][C21_InactiveLoginStep /\ C21_NoInactiveSuccess]_vars

\* The account locked, was then deactivated, and a login with the right
\* password inside the lock period was answered as locked.
C21_Witness ==
    /\ result.op = "login"
    /\ result.email = "a@x.com"
    /\ result.message = MSG_LOCKED
    /\ check_password(users["a@x.com"], result.password)
    /\ ~users["a@x.com"].is_active
    /\ users["a@x.com"].locked_until > now
    /\ sessions = {}

----------------------------------------------------------------------------
(* C22: create_user_session creates exactly one new session row for the    *)
(* user, with status active, a fresh session/refresh token pair and        *)
(* expires_at = now + 24 h; when it returns, no session of that user with  *)
(* expires_at earlier than now has status active; the sessions of other    *)
(* users are unchanged.                                                    *)

\* Two users logging in and out, with up to three sessions between them;
\* instants: the start and after the 24 hours of a session.
IssueInstants == {T0 + d : d \in {0, Hours(SESSION_HOURS) + 1}}

IssueNext ==
    \/ /\ Len(auditLog) < MaxAudit
       /\ nextId <= MaxIds + 1
       /\ \E e \in Emails : LoginView(e, "pw123456", "10.0.0.1", TRUE)
    \/ /\ Len(auditLog) < MaxAudit
       /\ \E st \in SessionTokensSeen : LogoutView(st, "10.0.0.1")
    \/ Advance(IssueInstants)

SpecIssue == Init /\ [][IssueNext]_vars

C22_IssueStep ==
    Returned("login_ok") =>
      LET u == result'.email
          created == sessions' \ sessions
          ids == {s.id : s \in sessions}
      IN
      /\ \E new \in created :
            /\ new.id = result'.session_id
            /\ new.id \notin ids
            /\ new.user = u
            /\ new.status = "active"
            /\ new.expires_at = now + Hours(24)
            /\ new.created_at = now
            /\ new.refresh_token = result'.refresh_token
            /\ new.session_token \notin SessionTokensSeen
            /\ new.refresh_token \notin RefreshTokensSeen
            /\ \A s \in sessions : /\ s.session_token # new.session_token
                                   /\ s.refresh_token # new.refresh_token
            /\ {s.id : s \in sessions'} = ids \cup {new.id}
      /\ Cardinality(sessions') = Cardinality(sessions) + 1
      /\ \A s \in sessions' :
            (s.user = u /\ s.expires_at < now) => s.status # "active"
      /\ \A s \in sessions : s.user # u => s \in sessions'

C22_IssueSession == [][C22_IssueStep]_vars

\* a@x.com has logged in again after the 24 hours of the first session,
\* which the login marked expired; the session of b@x.com, as old, is
\* still stored as active.
C22_Witness ==
    /\ result.op = "login_ok"
    /\ result.email = "a@x.com"
    /\ \E s \in sessions : /\ s.user = "a@x.com"
                           /\ s.expires_at < now
                           /\ s.status = "expired"
    /\ \E s \in sessions : /\ s.user = "b@x.com"
                           /\ s.expires_at < now
                           /\ s.status = "active"
    /\ \E s \in sessions : s.id = result.session_id /\ s.expires_at > now

----------------------------------------------------------------------------
(* C23: a refresh with the refresh token of a session that is active but   *)
(* past its expires_at sets the status to expired, rotates no token, does  *)
(* not ask the Organization Directory and fails with "Session expired"; a  *)
(* refresh with the refresh token of a revoked or expired session, or      *)
(* with an unknown token, fails and changes nothing.                       *)

C23_RefreshFailureStep ==
    Returned("refresh") =>
      LET rt == result'.refresh_token
          overdue == {s \in HeldBy(rt) : s.status = "active" /\ now > s.expires_at}
          live == {s \in HeldBy(rt) : s.status = "active"}
      IN
      /\ \A s \in overdue :
            /\ result'.status = 400
            /\ result'.message = MSG_SESSION_EXPIRED
            /\ result'.minted = {}
            /\ jwts' = jwts
            /\ \E s2 \in sessions' :
                  /\ sessions' = (sessions \ {s}) \cup {s2}
                  /\ s2.id = s.id
                  /\ s2.user = s.user
                  /\ s2.status = "expired"
                  /\ s2.session_token = s.session_token
                  /\ s2.refresh_token = s.refresh_token
                  /\ s2.expires_at = s.expires_at
            /\ refresh_session(sessions, users, rt, nextId, TRUE, now)
                  = refresh_session(sessions, users, rt, nextId, FALSE, now)
      /\ live = {} =>
            /\ result'.status = 400
            /\ result'.message = "Invalid refresh token"
            /\ result'.minted = {}
            /\ sessions' = sessions
            /\ jwts' = jwts

C23_ExpiredRefresh == [][C23_RefreshFailureStep]_vars

\* The refresh token of a session that an earlier refresh had found past
\* its expiry and marked expired was presented again and refused, while a
\* revoked session is stored too.
C23_Witness ==
    /\ result.op = "refresh"
    /\ result.message = "Invalid refresh token"
    /\ \E s \in HeldBy(result.refresh_token) : /\ s.status = "expired"
                                               /\ now > s.expires_at
                                               /\ s.last_accessed > s.expires_at
    /\ \E s \in sessions : s.status = "revoked"

----------------------------------------------------------------------------
(* Concurrent requests: a handler that reads a row and later saves it is   *)
(* split at the read; the other handlers run between the two halves.       *)

\* The row with the primary key of `s` is written with every column of `s`
\* (Model.save() of a loaded instance).
SaveSession(ss, s) == {x \in ss : x.id # s.id} \cup {s}

\* refresh_session up to UserSession.objects.get(refresh_token=...,
\* status='active'): the worker holds a copy of the row.
BeginRefresh(w, refresh_token) ==
    /\ w \notin DOMAIN procs
    /\ \E s \in sessions :
          /\ s.refresh_token = refresh_token
          /\ s.status = "active"
          /\ procs' = (w :> [pc |-> "session_loaded", refresh_token |-> refresh_token,
                             session |-> s]) @@ procs
    /\ UNCHANGED <<now, users, sessions, resetTokens, verifications, auditLog, cache,
                   rateCalls, jwts, nextId, result>>

\* The rest of refresh_session on the copy: the expiry check, then either
\* status expired and save(), or refresh() with its save(), the directory
\* lookup and the JWT.
FinishRefresh(w, orgUp) ==
    /\ w \in DOMAIN procs
    /\ procs[w].pc = "session_loaded"
    /\ LET p == procs[w]
           r == refresh_session({p.session}, users, p.refresh_token, nextId, orgUp, now)
           saved == CHOOSE x \in r.sessions : TRUE
           minted == {Stamp(tok, Len(auditLog)) : tok \in r.minted}
       IN /\ sessions' = SaveSession(sessions, saved)
          /\ jwts' = jwts \cup minted
          /\ nextId' = IF r.rotated THEN nextId + 1 ELSE nextId
          /\ result' = [op |-> "refresh", refresh_token |-> p.refresh_token,
                        status |-> IF r.ok THEN 200 ELSE 400, message |-> r.message,
                        minted |-> minted, pair |-> r.pair]
    /\ procs' = [x \in DOMAIN procs \ {w} |-> procs[x]]
    /\ UNCHANGED <<now, users, resetTokens, verifications, auditLog, cache, rateCalls>>

\* A refresh in two halves, with logout and logout from all devices of
\* the same user in between.
RefreshRaceInstants == {T0 + d : d \in {0, Seconds(1)}}

RefreshRaceNext ==
    \/ /\ Len(auditLog) < MaxAudit
       /\ nextId <= MaxIds
       /\ LoginView("a@x.com", "pw123456", "10.0.0.1", TRUE)
    \/ /\ nextId + Cardinality(DOMAIN procs) <= MaxIds + 1
       /\ \E w \in Workers, rt \in RefreshTokensSeen : BeginRefresh(w, rt)
    \/ \E w \in Workers, up \in BOOLEAN : FinishRefresh(w, up)
    \/ /\ Len(auditLog) < MaxAudit
       /\ \E st \in SessionTokensSeen : LogoutView(st, "10.0.0.1")
    \/ /\ Len(auditLog) < MaxAudit
       /\ \E tok \in jwts : LogoutAllView(tok, "10.0.0.1")
    \/ Advance(RefreshRaceInstants)

SpecRefreshRace == Init /\ [][RefreshRaceNext]_vars

----------------------------------------------------------------------------
(* C24: when a refresh runs concurrently with a logout, a logout from all  *)
(* devices, a session revocation or a password reset on the same session,  *)
(* having read the row before the revocation commits, the revocation is    *)
(* not undone: once the revoke has committed the stored status is never    *)
(* active again and the token pair written by the refresh is not usable.   *)

C24_RevokeStep ==
    \A s \in sessions :
        s.status = "revoked" =>
            \A s2 \in sessions' :
                s2.id = s.id =>
                    /\ s2.status # "active"
                    /\ refresh_session(sessions', users', s2.refresh_token, nextId',
                                       TRUE, now').message = "Invalid refresh token"

C24_RevocationNotUndone == [][C24_RevokeStep]_vars

----------------------------------------------------------------------------
(* C25: a login attempt that read the user's row before a concurrent       *)
(* password reset or change committed does not overwrite that change when  *)
(* it saves its own counter update: after both have finished, the stored   *)
(* password hash is the new password's and password_changed_at is the      *)
(* bumped value.                                                           *)

\* Logins of a@x.com in two halves, with the request and the confirmation
\* of a password reset in between.
LoginRaceInstants == {T0 + d : d \in {0, Seconds(1)}}

LoginRaceNext ==
    \/ /\ Len(auditLog) + Cardinality(DOMAIN procs) < MaxAudit
       /\ \E w \in Workers, p \in Passwords :
             BeginAuthenticate(w, "a@x.com", p, "10.0.0.1")
    \/ \E w \in Workers : FinishAuthenticate(w)
    \/ /\ Len(auditLog) + Cardinality(DOMAIN procs) < MaxAudit
       /\ nextId <= MaxIds
       /\ PasswordResetRequestView("a@x.com", "10.0.0.1")
    \/ /\ Len(auditLog) + Cardinality(DOMAIN procs) < MaxAudit
       /\ \E k \in ResetTokensSeen : PasswordResetConfirmView(k, "newpw789", "10.0.0.1")
    \/ Advance(LoginRaceInstants)

SpecLoginRace == Init /\ [][LoginRaceNext]_vars

\* C25: between requests, the row of a user whose password was reset or changed
\* holds the new hash and the time of the last such change.
C25_PasswordChangeKept ==
    \A e \in Emails :
        (procs = <<>> /\ PasswordChangeRow(e) # 0) =>
            /\ check_password(users[e], "newpw789")
            /\ users[e].password_changed_at = auditLog[PasswordChangeRow(e)].timestamp

----------------------------------------------------------------------------
(* Concurrent password resets: reset_password gets the token row in one     *)
(* statement and tests is_valid() on that copy; the password, the token and *)
(* the sessions are written by later statements, with no lock and no        *)
(* transaction around them.                                                  *)

\* reset_password up to PasswordResetToken.objects.get: the worker holds a
\* copy of the token row.
BeginReset(w, token, new_password, ip) ==
    /\ w \notin DOMAIN procs
    /\ \E k \in resetTokens :
          /\ k.token = token
          /\ procs' = (w :> [pc |-> "token_loaded", token |-> token,
                             new_password |-> new_password, ip |-> ip,
                             reset_token |-> k]) @@ procs
    /\ UNCHANGED <<now, users, sessions, resetTokens, verifications, auditLog, cache,
                   rateCalls, jwts, nextId, result>>

\* The rest of reset_password: is_valid() on the copy, then user.save(),
\* use_token() (a save of the copy), the sessions update and the audit row.
FinishReset(w) ==
    /\ w \in DOMAIN procs
    /\ procs[w].pc = "token_loaded"
    /\ LET p == procs[w]
           r == reset_password(users, sessions,
                               {k \in resetTokens : k.token # p.token}
                                   \cup {p.reset_token},
                               p.token, p.new_password, p.ip, now)
       IN /\ users' = r.users
          /\ sessions' = r.sessions
          /\ resetTokens' = IF r.ok THEN r.tokens ELSE resetTokens
          /\ auditLog' = auditLog \o r.events
          /\ result' = [op |-> "reset_confirm", token |-> p.token,
                        new_password |-> p.new_password,
                        status |-> IF r.ok THEN 200 ELSE 400, message |-> r.message]
    /\ procs' = [x \in DOMAIN procs \ {w} |-> procs[x]]
    /\ UNCHANGED <<now, verifications, cache, rateCalls, jwts, nextId>>

\* The same second, a later one, and the first instant after the token's end.
ResetRaceInstants == {T0 + d : d \in {0, Seconds(1), Hours(RESET_HOURS) + 1}}

\* One user asks for one reset token; confirmations of that token run
\* concurrently, each with one of two new passwords.
ResetRaceNext ==
    \/ /\ resetTokens = {}
       /\ PasswordResetRequestView("a@x.com", "10.0.0.1")
    \/ /\ Len(auditLog) + Cardinality(DOMAIN procs) < MaxAudit + 1
       /\ \E w \in Workers, k \in ResetTokensSeen, p \in Passwords :
             BeginReset(w, k, p, "10.0.0.1")
    \/ \E w \in Workers : FinishReset(w)
    \/ Advance(ResetRaceInstants)

SpecResetRace == Init /\ [][ResetRaceNext]_vars

\* A step that completed a password reset (it wrote the audit row).
C26_ResetCompleted ==
    /\ result'.op = "reset_confirm"
    /\ result'.status = 200
    /\ Len(auditLog') = Len(auditLog) + 1

\* C26: a reset token is consumed at most once: every call of reset_password
\* that succeeds and changes the password presents a token that no earlier
\* call has consumed, so of two calls with the same token at most one
\* succeeds.
C26_StepUsesFreshToken ==
    C26_ResetCompleted =>
        \E k \in resetTokens : k.token = result'.token /\ ~k.is_used

C26_ResetTokenUsedOnce == [][C26_StepUsesFreshToken]_vars

----------------------------------------------------------------------------
(* Concurrent reset requests: create_reset_token marks the user's unused    *)
(* tokens used with one UPDATE and inserts the new token with a later       *)
(* INSERT; nothing holds other requests off between the two statements.     *)

\* PasswordResetRequestView.post up to the UPDATE of create_reset_token: the
\* rate limit, the lookup of the active user, and the marking of the user's
\* unused tokens. A request that is refused or finds no user ends here.
BeginResetRequest(w, email, ip) ==
    LET rl == check_rate_limit(cache, email, "password_reset_request", 3,
                               Seconds(3600), now)
        found == email \in DOMAIN users /\ users[email].is_active
    IN
    /\ w \notin DOMAIN procs
    /\ cache' = rl.cache
    /\ rateCalls' = RecordCall(rateCalls, RateKey("password_reset_request", email),
                               rl.allowed, now)
    /\ IF ~rl.allowed
       THEN /\ result' = [op |-> "reset_request", email |-> email, status |-> 429,
                          message |-> "Rate limit exceeded. Try again in 3600 seconds."]
            /\ UNCHANGED <<resetTokens, procs>>
       ELSE IF ~found
       THEN /\ result' = [op |-> "reset_request", email |-> email, status |-> 200,
                          message |-> MSG_RESET_ACCEPTED]
            /\ UNCHANGED <<resetTokens, procs>>
       ELSE /\ resetTokens' = MarkUsed(resetTokens, email)
            /\ procs' = (w :> [pc |-> "marked_used", email |-> email, ip |-> ip])
                            @@ procs
            /\ UNCHANGED result
    /\ UNCHANGED <<now, users, sessions, verifications, auditLog, jwts, nextId>>

\* cls.objects.create of create_reset_token: the INSERT alone.
InsertResetToken(ks, user, n, t) ==
    ks \cup {[user |-> user, token |-> <<"reset", n>>, created_at |-> t,
              expires_at |-> t + Hours(RESET_HOURS), is_used |-> FALSE]}

\* The rest: the INSERT of the new token, the audit row and the response.
FinishResetRequest(w) ==
    /\ w \in DOMAIN procs
    /\ procs[w].pc = "marked_used"
    /\ LET p == procs[w] IN
          /\ resetTokens' = InsertResetToken(resetTokens, p.email, nextId, now)
          /\ auditLog' = Append(auditLog,
                                log_event("password_reset_requested", p.ip, p.email,
                                          "", -1, now))
          /\ result' = [op |-> "reset_request", email |-> p.email, status |-> 200,
                        message |-> MSG_RESET_ACCEPTED]
    /\ nextId' = nextId + 1
    /\ procs' = [x \in DOMAIN procs \ {w} |-> procs[x]]
    /\ UNCHANGED <<now, users, sessions, verifications, cache, rateCalls, jwts>>

\* The same second, a later one, and the first instant after a token's end.
CreateRaceInstants == {T0 + d : d \in {0, Seconds(1), Hours(RESET_HOURS) + 1}}

\* Reset requests of one user run concurrently; issued tokens are redeemed.
CreateRaceNext ==
    \/ /\ nextId + Cardinality(DOMAIN procs) <= MaxIds + 1
       /\ \E w \in Workers : BeginResetRequest(w, "a@x.com", "10.0.0.1")
    \/ \E w \in Workers : FinishResetRequest(w)
    \/ /\ Len(auditLog) + Cardinality(DOMAIN procs) < MaxAudit + 1
       /\ \E k \in ResetTokensSeen : PasswordResetConfirmView(k, "newpw789", "10.0.0.1")
    \/ Advance(CreateRaceInstants)

SpecCreateRace == Init /\ [][CreateRaceNext]_vars

\* The user's reset tokens that is_valid() accepts now.
ValidResetTokens(e) == {k \in resetTokens : k.user = e /\ token_is_valid(k, now)}

\* C27: once every reset request that has started has finished, a user has at
\* most one valid (unused, unexpired) reset token.
C27_AtMostOneValidToken ==
    procs = <<>> => \A e \in Emails : Cardinality(ValidResetTokens(e)) <= 1

----------------------------------------------------------------------------
\* C28: every call of check_rate_limit, allowed or rejected, raises the
\* counter of its key by one, so that the stored count is the number of calls
\* made for the key in the current window.
C28_CallCounted ==
    Returned("check_rate_limit") =>
        cache_get(cache', result'.key, now) = cache_get(cache, result'.key, now) + 1

C28_EveryCallCounted == [][C28_CallCounted]_vars

----------------------------------------------------------------------------
(* Concurrent rate-limit checks: check_rate_limit reads the counter with    *)
(* cache.get and writes it with a later cache.set; other callers run in     *)
(* between.                                                                 *)

\* check_rate_limit up to cache.get: the worker holds the count it read.
BeginCheckRateLimit(w, identifier, action, limit, window) ==
    /\ w \notin DOMAIN procs
    /\ procs' = (w :> [pc |-> "count_read", identifier |-> identifier,
                       action |-> action, limit |-> limit, window |-> window,
                       current_count |-> cache_get(cache, RateKey(action, identifier),
                                                   now)]) @@ procs
    /\ UNCHANGED <<now, users, sessions, resetTokens, verifications, auditLog, cache,
                   rateCalls, jwts, nextId, result>>

\* The rest of check_rate_limit: the comparison of the count that was read,
\* and cache.set of that count plus one.
FinishCheckRateLimit(w) ==
    /\ w \in DOMAIN procs
    /\ procs[w].pc = "count_read"
    /\ LET p == procs[w]
           key == RateKey(p.action, p.identifier)
           allowed == ~(p.current_count >= p.limit)
       IN /\ cache' = IF allowed
                      THEN cache_set(cache, key, p.current_count + 1, p.window, now)
                      ELSE cache
          /\ rateCalls' = RecordCall(rateCalls, key, allowed, now)
          /\ result' = [op |-> "check_rate_limit", key |-> key, limit |-> p.limit,
                        window |-> p.window, allowed |-> allowed]
    /\ procs' = [x \in DOMAIN procs \ {w} |-> procs[x]]
    /\ UNCHANGED <<now, users, sessions, resetTokens, verifications, auditLog, jwts,
                   nextId>>

\* The same second, one inside the window, and the window's end.
RateRaceInstants == {T0 + d : d \in {0, Seconds(1), Seconds(3600)}}

\* Concurrent password-reset requests of one email address, as far as their
\* rate-limit check.
RateRaceNext ==
    \/ /\ AllowedCalls(rateCalls) + Cardinality(DOMAIN procs) < MaxCalls
       /\ \E w \in Workers :
             BeginCheckRateLimit(w, "a@x.com", "password_reset_request", 3,
                                 Seconds(3600))
    \/ \E w \in Workers : FinishCheckRateLimit(w)
    \/ Advance(RateRaceInstants)

SpecRateRace == Init /\ [][RateRaceNext]_vars

\* C29: however the callers of check_rate_limit interleave, the number of
\* calls allowed for a key within one window never exceeds the key's limit.
C29_AllowedWithinLimit ==
    \A c \in RateConfigs :
        Cardinality(AllowedWithin(RateKey(c[2], c[1]), c[4])) <= c[3]

----------------------------------------------------------------------------
(* A caller that keeps asking: time passes, and the caller of a limited key *)
(* tries again.                                                             *)

ResetKey == RateKey("password_reset_request", "a@x.com")

\* The history kept for a key that was refused: the time of its last refusal.
RecordRejected(calls, key, allowed, t) ==
    IF allowed THEN calls ELSE (<<"rejected", key>> :> <<t>>) @@ calls

\* SecurityService.check_rate_limit, called on its own, with the refusals
\* recorded as well.
RetryCheckRateLimit(identifier, action, limit, window) ==
    LET r == check_rate_limit(cache, identifier, action, limit, window, now)
        key == RateKey(action, identifier)
    IN
    /\ cache' = r.cache
    /\ rateCalls' = RecordRejected(RecordCall(rateCalls, key, r.allowed, now),
                                   key, r.allowed, now)
    /\ result' = [op |-> "check_rate_limit", key |-> key,
                  limit |-> limit, window |-> window, allowed |-> r.allowed]
    /\ UNCHANGED <<now, users, sessions, resetTokens, verifications, auditLog, jwts,
                   nextId, procs>>

\* The last second of a window, its end, and the end of the next window.
RateLiveInstants ==
    {T0 + d : d \in {0, Seconds(3600) - 1, Seconds(3600), Seconds(7200)}}

RateLiveCall ==
    /\ ResetKey \in DOMAIN rateCalls => Len(rateCalls[ResetKey]) < MaxCalls
    /\ RetryCheckRateLimit("a@x.com", "password_reset_request", 3, Seconds(3600))

RateLiveNext ==
    \/ RateLiveCall
    \/ Advance(RateLiveInstants)

\* Time passes, and the caller does not give up.
SpecRateLive ==
    /\ Init
    /\ [][RateLiveNext]_vars
    /\ WF_vars(Advance(RateLiveInstants))
    /\ WF_vars(RateLiveCall)

\* The time of the last allowed call for the key (NoTime: none).
LastAllowed(key) ==
    IF key \in DOMAIN rateCalls /\ rateCalls[key] # <<>>
    THEN rateCalls[key][Len(rateCalls[key])] ELSE NoTime

\* A call: a refusal leaves the cache as it was, count and expiry, and a call
\* made `window` or more after the key's last allowed call is allowed.
C30_CallStep ==
    Returned("check_rate_limit") =>
        /\ ~result'.allowed => cache' = cache
        /\ (LastAllowed(result'.key) = NoTime
              \/ now >= LastAllowed(result'.key) + result'.window)
             => result'.allowed

\* The key was refused, and the clock can reach the end of its window.
C30_Limited ==
    /\ result.op = "check_rate_limit"
    /\ ~result.allowed
    /\ \E t \in RateLiveInstants : t >= LastAllowed(result.key) + result.window

C30_AllowedAgain == result.op = "check_rate_limit" /\ result.allowed

\* C30: a refused call neither raises the counter nor extends its expiry, the
\* first call made `window` or more after the key's last allowed call is
\* allowed, and so a refused key is eventually allowed again as time passes.
C30_EventuallyAllowed ==
    /\ [][C30_CallStep]_vars
    /\ C30_Limited ~> C30_AllowedAgain

\* A call is allowed a window after the one before it, with a refusal of the
\* key in between, the key having been at its limit.
C30_Witness ==
    /\ result.op = "check_rate_limit"
    /\ result.allowed
    /\ ResetKey \in DOMAIN rateCalls
    /\ <<"rejected", ResetKey>> \in DOMAIN rateCalls
    /\ LET calls == rateCalls[ResetKey]
           n == Len(calls)
           refused == rateCalls[<<"rejected", ResetKey>>][1]
       IN /\ n = 4
          /\ calls[4] = now
          /\ now >= calls[3] + Seconds(3600)
          /\ refused > calls[3]
          /\ refused < now
          /\ calls[1] > calls[3] - Seconds(3600)

----------------------------------------------------------------------------
(* Logins that fail: by the rate limit, the password, a lock, a             *)
(* deactivated user, or the organization directory.                         *)

\* Within one rate-limit window, one address logs in as one user, with
\* either password and with the directory up or down, until the address is
\* refused; the user may be deactivated.
LoginFailureNext ==
    \/ /\ AllowedCalls(rateCalls) < MaxCalls
       /\ nextId <= MaxIds
       /\ \E p \in Passwords, up \in BOOLEAN : LoginView("a@x.com", p, "10.0.0.1", up)
    \/ DeactivateUser("a@x.com")

SpecLoginFailure == Init /\ [][LoginFailureNext]_vars

\* C31: a login that fails creates no session and returns no access or
\* refresh token, whatever the reason; when the credentials were verified
\* and the login still fails, it is the directory call that failed, and the
\* answer is 503 Service unavailable (and 503 is given in that case only).
C31_FailedLoginStep ==
    Returned("login") =>
        /\ sessions' = sessions
        /\ jwts' = jwts
        /\ nextId' = nextId
        /\ "access_token" \notin DOMAIN result'
        /\ "refresh_token" \notin DOMAIN result'
        /\ result'.status \in {401, 429, 503}
        /\ SucceededFor(result'.email) <=> result'.status = 503
        /\ result'.status = 503 => result'.message = "Service unavailable"
        /\ result'.status = 429 => UNCHANGED <<users, auditLog>>

C31_FailedLoginCreatesNoSession == [][C31_FailedLoginStep]_vars

\* The directory failed after the password was verified: the audit log ends
\* with the login_success row, last_login is set, and there is no session.
C31_Witness ==
    /\ result.op = "login"
    /\ result.status = 503
    /\ auditLog # <<>>
    /\ auditLog[Len(auditLog)].action = "login_success"
    /\ users["a@x.com"].last_login = now
    /\ sessions = {}
    /\ jwts = {}

----------------------------------------------------------------------------
(* The periodic jobs beside live traffic. A job is a sequence of           *)
(* statements with no transaction around them: requests run between its     *)
(* statements, the worker may be stopped after any of them, and the job is  *)
(* then run again.                                                          *)

\* The 90-day sweep of the audit log
CleanupOldAuditLogs ==
    /\ auditLog' = cleanup_old_audit_logs(auditLog, now)
    /\ result' = [op |-> "cleanup_old_audit_logs",
                  deleted_logs |-> Len(auditLog) - Len(auditLog')]
    /\ UNCHANGED <<now, users, sessions, resetTokens, verifications, cache, rateCalls,
                   jwts, nextId, procs>>

\* The worker is free, or its last run was stopped.
CanStartJob(w) ==
    IF w \in DOMAIN procs THEN procs[w].pc = "interrupted" ELSE TRUE

\* cleanup_expired_sessions up to the UPDATE that marks the expired rows
BeginCleanupSessions(w) ==
    /\ CanStartJob(w)
    /\ sessions' = MarkExpiredSessions(sessions, now)
    /\ procs' = (w :> [pc |-> "sessions_marked", started |-> now,
                       rerun |-> w \in DOMAIN procs,
                       expired_sessions |->
                           Cardinality(sessions' \ sessions)]) @@ procs
    /\ UNCHANGED <<now, users, resetTokens, verifications, auditLog, cache, rateCalls,
                   jwts, nextId, result>>

\* The rest of cleanup_expired_sessions: the DELETE, with its own
\* timezone.now(), and the counts returned.
FinishCleanupSessions(w) ==
    /\ w \in DOMAIN procs
    /\ procs[w].pc = "sessions_marked"
    /\ sessions' = DeleteOldSessions(sessions, now)
    /\ result' = [op |-> "cleanup_expired_sessions",
                  expired_sessions |-> procs[w].expired_sessions,
                  deleted_sessions |-> Cardinality(sessions) - Cardinality(sessions'),
                  started |-> procs[w].started, rerun |-> procs[w].rerun]
    /\ procs' = [x \in DOMAIN procs \ {w} |-> procs[x]]
    /\ UNCHANGED <<now, users, resetTokens, verifications, auditLog, cache, rateCalls,
                   jwts, nextId>>

\* cleanup_expired_tokens up to the DELETE of the verification tokens; `now`
\* is read once, before it.
BeginCleanupTokens(w) ==
    /\ CanStartJob(w)
    /\ verifications' = cleanup_expired_tokens(verifications, now)
    /\ procs' = (w :> [pc |-> "verifications_deleted", started |-> now,
                       rerun |-> w \in DOMAIN procs,
                       deleted_verification_tokens |->
                           Cardinality(verifications) - Cardinality(verifications')])
                    @@ procs
    /\ UNCHANGED <<now, users, sessions, resetTokens, auditLog, cache, rateCalls, jwts,
                   nextId, result>>

\* The rest of cleanup_expired_tokens: the DELETE of the reset tokens, at the
\* `now` read at the start.
FinishCleanupTokens(w) ==
    /\ w \in DOMAIN procs
    /\ procs[w].pc = "verifications_deleted"
    /\ resetTokens' = cleanup_expired_tokens(resetTokens, procs[w].started)
    /\ result' = [op |-> "cleanup_expired_tokens",
                  deleted_verification_tokens |-> procs[w].deleted_verification_tokens,
                  deleted_reset_tokens |->
                      Cardinality(resetTokens) - Cardinality(resetTokens'),
                  started |-> procs[w].started, rerun |-> procs[w].rerun]
    /\ procs' = [x \in DOMAIN procs \ {w} |-> procs[x]]
    /\ UNCHANGED <<now, users, sessions, verifications, auditLog, cache, rateCalls,
                   jwts, nextId>>

\* The worker is stopped between the two statements of its job.
InterruptJob(w) ==
    /\ w \in DOMAIN procs
    /\ procs[w].pc \in {"sessions_marked", "verifications_deleted"}
    /\ procs' = [procs EXCEPT ![w] = [pc |-> "interrupted"]]
    /\ result' = [op |-> "job_interrupted", worker |-> w]
    /\ UNCHANGED <<now, users, sessions, resetTokens, verifications, auditLog, cache,
                   rateCalls, jwts, nextId>>

\* The start, after a reset token's hour and a session's and a verification
\* token's day, after the 30 days of sessions, after the 90 days of the log.
CleanupInstants ==
    {T0 + d : d \in {0, Hours(SESSION_HOURS) + 1, Days(SESSION_RETENTION_DAYS) + 1,
                     Days(AUDIT_RETENTION_DAYS) + 1}}

CleanupNext ==
    \/ /\ Len(auditLog) < MaxTokens
       /\ nextId <= MaxIds
       /\ LoginView("a@x.com", "pw123456", "10.0.0.1", TRUE)
    \/ /\ nextId <= MaxIds
       /\ \E rt \in RefreshTokensSeen : RefreshTokenView(rt, TRUE)
    \/ /\ Len(auditLog) < MaxTokens
       /\ \E st \in SessionTokensSeen : LogoutView(st, "10.0.0.1")
    \/ /\ Len(auditLog) < MaxTokens
       /\ nextId <= MaxIds
       /\ PasswordResetRequestView("a@x.com", "10.0.0.1")
    \/ /\ nextId <= MaxIds
       /\ CreateEmailVerification("a@x.com")
    \/ CleanupOldAuditLogs
    \/ BeginCleanupSessions("w1")
    \/ FinishCleanupSessions("w1")
    \/ BeginCleanupTokens("w1")
    \/ FinishCleanupTokens("w1")
    \/ InterruptJob("w1")
    \/ Advance(CleanupInstants)

SpecCleanup == Init /\ [][CleanupNext]_vars

\* The cutoff of the run that the step completes: the time its first
\* statement ran at, which is `now` for a run that was not spread out.
C32_Cutoffs(pc) ==
    LET ended == {w \in DOMAIN procs : /\ procs[w].pc = pc
                                       /\ w \notin DOMAIN procs'}
    IN IF ended = {} THEN {now} ELSE {procs[w].started : w \in ended}

\* The step ends a run of the job `op`: it ran at once, or it is the last
\* statement of a run that had stopped at `pc`.
C32_RunEnds(op, pc) ==
    /\ Returned(op)
    /\ \/ procs' = procs
       \/ \E w \in DOMAIN procs : procs[w].pc = pc /\ w \notin DOMAIN procs'

\* C32: when a run of a cleanup job ends, whether it ran at once, was spread
\* out between requests, or repeats a run that was stopped half-way, running
\* the job again at the same cutoff changes nothing: the stores are in a
\* state that a single uninterrupted run at that cutoff leaves them in.
C32_JobStep ==
    /\ C32_RunEnds("cleanup_expired_sessions", "sessions_marked") =>
          \A t \in C32_Cutoffs("sessions_marked") :
              cleanup_expired_sessions(sessions', t).sessions = sessions'
    /\ C32_RunEnds("cleanup_expired_tokens", "verifications_deleted") =>
          \A t \in C32_Cutoffs("verifications_deleted") :
              /\ cleanup_expired_tokens(verifications', t) = verifications'
              /\ cleanup_expired_tokens(resetTokens', t) = resetTokens'
    /\ (Returned("cleanup_old_audit_logs") /\ procs' = procs) =>
          cleanup_old_audit_logs(auditLog', now) = auditLog'

C32_CleanupIdempotent == [][C32_JobStep]_vars

\* A run of the session job that repeats a stopped run, was spread over a
\* login, and had rows to mark and to delete, has ended.
C32_Witness ==
    /\ result.op = "cleanup_expired_sessions"
    /\ "rerun" \in DOMAIN result
    /\ result.rerun
    /\ result.started < now
    /\ result.deleted_sessions > 0
    /\ \E s \in sessions : s.created_at > result.started

----------------------------------------------------------------------------
(* A session kept alive: the client refreshes it each time it is due, day   *)
(* after day, and the hourly sweep runs in between.                         *)

\* Every 24 hours from the start to the 30th day, and the tick after that.
KeepAliveInstants ==
    {T0 + Hours(SESSION_HOURS) * k : k \in 0..SESSION_RETENTION_DAYS}
        \cup {T0 + Days(SESSION_RETENTION_DAYS) + 1}

\* The refresh tokens of the sessions that are due: their expiry has come.
DueRefreshTokens == {s.refresh_token : s \in {x \in sessions : x.expires_at <= now}}

KeepAliveNext ==
    \/ /\ sessions = {}
       /\ LoginView("a@x.com", "pw123456", "10.0.0.1", TRUE)
    \/ /\ nextId <= SESSION_RETENTION_DAYS + 1
       /\ \E rt \in DueRefreshTokens : RefreshTokenView(rt, TRUE)
    \/ CleanupExpiredSessions
    \/ Advance(KeepAliveInstants)

SpecKeepAlive == Init /\ [][KeepAliveNext]_vars

\* The session is live: active, and its expiry is still ahead.
IsLive(s) == s.status = "active" /\ now < s.expires_at

\* C33: cleanup_expired_sessions changes no live session: the rows it marks
\* expired were active with expires_at before now, and every live row,
\* however long ago it was created, is there afterwards as it was.
C33_CleanupStep ==
    Returned("cleanup_expired_sessions") =>
        /\ \A s \in sessions : IsLive(s) => s \in sessions'
        /\ \A s \in sessions' \ sessions :
              /\ s.status = "expired"
              /\ \E x \in sessions : /\ x.status = "active"
                                     /\ x.expires_at < now
                                     /\ s = [x EXCEPT !.status = "expired"]

C33_CleanupKeepsLive == [][C33_CleanupStep]_vars

----------------------------------------------------------------------------
(* C34: after a lock has elapsed without a successful login the count is    *)
(* still at least 5; a login with the right password then succeeds and      *)
(* resets the count to 0, and a login with a wrong password raises the      *)
(* count by one and locks the account again for 30 minutes from now.        *)

\* The lock of `e` has elapsed and no login has succeeded since.
LockElapsed(e) == users[e].locked_until # NoTime /\ ~(users[e].locked_until > now)

\* C34, the state part: a lock that was not cleared by a success has a count
\* of 5 or more beside it.
C34_CountKept ==
    \A e \in Emails :
        users[e].locked_until # NoTime =>
            users[e].failed_login_attempts >= MAX_FAILED_ATTEMPTS

\* C34, the step part: the two outcomes of an attempt after the lock elapsed.
C34_AfterLockStep ==
    \A e \in Emails :
        (IsAuthStep(e) /\ LockElapsed(e) /\ users[e].is_active) =>
            IF check_password(users[e], result'.password)
            THEN /\ result'.user = e
                 /\ users'[e].failed_login_attempts = 0
                 /\ users'[e].locked_until = NoTime
            ELSE /\ result'.user = NoUser
                 /\ result'.message = MSG_INVALID_CREDENTIALS
                 /\ users'[e].failed_login_attempts
                        = users[e].failed_login_attempts + 1
                 /\ users'[e].locked_until = now + Minutes(LOCK_MINUTES)

Addresses == {"10.0.0.1", "10.0.0.2", "10.0.0.3", "10.0.0.4"}

\* the addresses of the request that writes audit row number n + 1: the first
\* requests come from anywhere, the later ones from one address
AddressFor(n) == IF n < MaxAudit THEN Addresses ELSE {"10.0.0.1"}

SuspiciousInstants == {T0, T0 + Hours(1) + 1}

\* one user logging in, failing logins and changing the password, from several
\* addresses
SuspiciousNext ==
    \/ /\ Len(auditLog) < 10 + MaxAudit
       /\ nextId <= MaxIds
       /\ \E ip \in AddressFor(Len(auditLog)), p \in Passwords :
             /\ check_password(users["a@x.com"], p)
             /\ LoginView("a@x.com", p, ip, TRUE)
    \/ /\ Len(auditLog) < MaxAudit
       /\ \E ip \in Addresses, p \in Passwords :
             /\ ~check_password(users["a@x.com"], p)
             /\ LoginView("a@x.com", p, ip, TRUE)
    \/ /\ Len(auditLog) < 9 + MaxAudit
       /\ \E tok \in jwts, cur \in Passwords, new \in Passwords,
             ip \in AddressFor(Len(auditLog)) :
             /\ validate_jwt_token(tok, sessions, users, now).ok
             /\ check_password(users["a@x.com"], cur)
             /\ cur # new
             /\ ChangePasswordView(tok, cur, new, FALSE, ip)
    \/ Advance(SuspiciousInstants)

SpecSuspicious == Init /\ [][SuspiciousNext]_vars

\* the user's audit events of the trailing hour
C35_TrailingHour(log, user, t) ==
    {i \in DOMAIN log : log[i].user = user /\ log[i].timestamp >= t - Hours(1)}

\* more than 3 distinct addresses among all of them, or at least 5 login attempts
C35_Reported(log, user, t) ==
    \/ Cardinality({log[i].ip_address : i \in C35_TrailingHour(log, user, t)}) > 3
    \/ Cardinality({i \in C35_TrailingHour(log, user, t) :
                       log[i].action \in {"login_success", "login_failed"}}) >= 5

C35_LoginStep ==
    Returned("login_ok") =>
        /\ result'.status = 200
        /\ result'.security_warning = C35_Reported(auditLog', result'.email, now')

\* C35: a successful login carries the warning exactly when, among all of the
\* user's audit events of the trailing hour, more than 3 distinct addresses
\* occur or at least 5 events are login attempts; the login is answered 200
\* either way.
C35_SuspiciousExactly == [][C35_LoginStep]_vars

\* ---------------------------------------------------------------------------
\* The audit log under logins, the other operations that write to it, and
\* the 90-day sweep
\* ---------------------------------------------------------------------------

\* Instants: the start and the two sides of the 90 days audit rows are kept.
AuditInstants ==
    {T0 + d : d \in {0, Days(AUDIT_RETENTION_DAYS), Days(AUDIT_RETENTION_DAYS) + 1}}

AuditNext ==
    \/ /\ Len(auditLog) < MaxAudit
       /\ \/ \E p \in Passwords : AuthenticateUser("a@x.com", p, "10.0.0.1")
          \/ AuthenticateUser(UnknownEmail, "pw123456", "10.0.0.1")
    \/ /\ Len(auditLog) < MaxAudit
       /\ nextId <= MaxIds
       /\ LoginView("a@x.com", "pw123456", "10.0.0.1", TRUE)
    \/ /\ Len(auditLog) < MaxAudit
       /\ \E st \in SessionTokensSeen : LogoutView(st, "10.0.0.1")
    \/ CleanupOldAuditLogs
    \/ Advance(AuditInstants)

SpecAudit == AuthInit /\ [][AuditNext]_vars

\* the rows of log at the positions K, in their order
RECURSIVE C36_Pick(_, _)
C36_Pick(log, K) ==
    IF log = <<>> THEN <<>>
    ELSE LET rest == C36_Pick(Tail(log), {k - 1 : k \in K \ {1}})
         IN IF 1 \in K THEN <<Head(log)>> \o rest ELSE rest

\* the row an AuthenticateCredentials call writes
C36_LoginRow(row) ==
    /\ row.timestamp = now
    /\ \/ row.action = "login_success" /\ row.reason = ""
       \/ /\ row.action = "login_failed"
          /\ row.reason \in {"account_locked", "account_inactive", "invalid_password",
                             "user_not_found"}

C36_Step ==
    /\ \/ Returned("authenticate_user")
       \/ (Returned("login") \/ Returned("login_ok")) /\ result'.status # 429
       => /\ Len(auditLog') = Len(auditLog) + 1
          /\ C36_LoginRow(auditLog'[Len(auditLog')])
    /\ IF Returned("cleanup_old_audit_logs")
       THEN \E K \in SUBSET DOMAIN auditLog :
               /\ auditLog' = C36_Pick(auditLog, K)
               /\ \A i \in DOMAIN auditLog \ K :
                     auditLog[i].timestamp < now - Days(AUDIT_RETENTION_DAYS)
       ELSE /\ Len(auditLog') >= Len(auditLog)
            /\ SubSeq(auditLog', 1, Len(auditLog)) = auditLog

\* C36: the audit log is append-only: every call of authenticate_user appends
\* exactly one event (login_success, or login_failed with one of the four
\* reasons), no operation changes an event already written, and an event is
\* removed only by cleanup_old_audit_logs, once it is older than 90 days.
C36_AuditAppendOnly == [][C36_Step]_vars

\* The sweep removed the events older than 90 days and kept a younger one.
C36_Witness ==
    /\ result.op = "cleanup_old_audit_logs"
    /\ result.deleted_logs > 0
    /\ auditLog # <<>>
    /\ \E i \in DOMAIN auditLog : auditLog[i].action = "login_failed"

\* ---------------------------------------------------------------------------
\* JWTAuthenticationMiddleware.process_request on a protected path
\* ---------------------------------------------------------------------------

NoSession == 0      \* no user_session bound to the request

\* process_request for a request to a protected path with `tok` as the
\* bearer token. A token validate_jwt_token refuses is answered 401 with its
\* message. For an accepted token the user is bound, then the active session
\* row is loaded and `session.last_accessed = timezone.now()` runs: the
\* module imports no `timezone`, so the statement raises NameError before the
\* save and before request.user_session is set, and the outer handler
\* answers 401 "Token validation failed". Without an active row the lookup
\* raises DoesNotExist, which is logged, and the request goes on to the view.
JWTAuthenticationMiddleware(tok) ==
    LET v == validate_jwt_token(tok, sessions, users, now)
        found == {s \in sessions : s.id = tok.session_id /\ s.status = "active"}
        answer(status, message, user) ==
            [op |-> "protected_request", token |-> tok, status |-> status,
             message |-> message, user |-> user, user_session |-> NoSession]
    IN
    /\ result' = IF ~v.ok THEN answer(401, v.message, NoUser)
                 ELSE IF tok.email \notin DOMAIN users
                 THEN answer(401, "User not found", NoUser)
                 ELSE IF found # {}
                 THEN answer(401, "Token validation failed", tok.email)
                 ELSE answer(200, "", tok.email)
    /\ UNCHANGED <<now, users, sessions, resetTokens, verifications, auditLog, cache,
                   rateCalls, jwts, nextId, procs>>

\* a@x.com logs in, calls protected endpoints with the tokens it holds, and
\* revokes sessions.
MiddlewareNext ==
    \/ /\ nextId <= MaxIds
       /\ LoginView("a@x.com", "pw123456", "10.0.0.1", TRUE)
    \/ \E tok \in jwts : JWTAuthenticationMiddleware(tok)
    \/ \E tok \in jwts : JWTAuthenticationMiddleware(Forged(tok))
    \/ /\ Len(auditLog) < MaxIds + MaxAudit
       /\ \E tok \in jwts, s \in sessions : RevokeSessionView(tok, s.id, "10.0.0.1")
    \/ Advance(SessionInstants)

SpecMiddleware == Init /\ [][MiddlewareNext]_vars

C37_Step ==
    Returned("protected_request") =>
        LET tok == result'.token
            mine == {s \in sessions : s.id = tok.session_id}
        IN /\ validate_jwt_token(tok, sessions, users, now).ok =>
                /\ result'.status = 200
                /\ result'.user = tok.email
                /\ result'.user_session = tok.session_id
                /\ \E s \in sessions' : s.id = tok.session_id /\ s.last_accessed = now
           /\ (\E s \in mine : s.status = "revoked") => result'.status = 401

\* C37: a request to a protected endpoint with an access token that
\* validate_jwt_token accepts is admitted by JWTAuthenticationMiddleware with
\* the user and the session bound to the request and the session's
\* last_accessed set to now; the same request after the session was revoked is
\* answered 401.
C37_ValidTokenAdmitted == [][C37_Step]_vars

\* ---------------------------------------------------------------------------
\* RevokeSessionView with two users
\* ---------------------------------------------------------------------------

\* Both users log in and log out, and each asks to revoke any session id,
\* its own, the other user's, or one that no row has.
RevokeNext ==
    \/ /\ nextId <= MaxIds
       /\ \E e \in Emails : LoginView(e, "pw123456", "10.0.0.1", TRUE)
    \/ /\ Len(auditLog) < MaxIds + MaxAudit
       /\ \E st \in SessionTokensSeen : LogoutView(st, "10.0.0.1")
    \/ /\ Len(auditLog) < MaxIds + MaxAudit
       /\ \E tok \in jwts, id \in 1..nextId : RevokeSessionView(tok, id, "10.0.0.1")
    \/ Advance(SessionInstants)

SpecRevoke == Init /\ [][RevokeNext]_vars

\* the active session `id` of the user the token names
C38_Own(tok, id) ==
    {s \in sessions : s.id = id /\ s.user = tok.email /\ s.status = "active"}

C38_RevokeStep ==
    Returned("revoke_session") =>
        LET tok == result'.token
            id == result'.session_id
        IN IF ~validate_jwt_token(tok, sessions, users, now).ok
           THEN result'.status = 401 /\ sessions' = sessions
           ELSE IF C38_Own(tok, id) = {}
           THEN /\ result'.status = 404
                /\ result'.message = "Session not found"
                /\ sessions' = sessions
           ELSE /\ result'.status = 200
                /\ \E s \in C38_Own(tok, id) :
                      sessions' = (sessions \ {s})
                                    \cup {[s EXCEPT !.status = "revoked",
                                                    !.last_accessed = now]}

\* a session that becomes revoked was revoked by a request of its own user
C38_RevokedByOwner ==
    \A s \in sessions, r \in sessions' :
        r.id = s.id /\ s.status # "revoked" /\ r.status = "revoked" =>
            \/ result'.op = "revoke_session" /\ result'.token.email = s.user
            \/ result'.op = "logout" /\ result'.session_token = s.session_token

\* C38: RevokeSessionView with a valid access token of user U revokes the
\* session only if it belongs to U and is active; for a session of another
\* user or one that is not active it answers Session not found and changes no
\* session, so no user moves another user's session to revoked.
C38_RevokeOwnSessionOnly == [][C38_RevokeStep /\ C38_RevokedByOwner]_vars

\* A user asked to revoke the other user's active session and was answered
\* Session not found; the session is still active.
C38_Witness ==
    /\ result.op = "revoke_session"
    /\ result.status = 404
    /\ validate_jwt_token(result.token, sessions, users, now).ok
    /\ \E s \in sessions : /\ s.id = result.session_id
                           /\ s.user # result.token.email
                           /\ s.status = "active"
                           /\ s.expires_at > now

\* ---------------------------------------------------------------------------
\* Service-to-service requests: ServiceClient of the auth service signs,
\* ServiceTokenPermission of the Organization Directory checks
\* ---------------------------------------------------------------------------

SERVICE_TOKEN == "org-service-token"            \* the Directory's settings.SERVICE_TOKEN
SERVICE_SECRET == "shared-service-secret-key"   \* settings.SERVICE_SECRET of both
TIMESTAMP_TOLERANCE == 300                      \* seconds

ServiceHeaders == {"X-Service-Token", "X-Service-ID", "X-Timestamp", "X-Signature"}

\* hmac.new(key, msg, sha256).hexdigest(): equal digests come from equal key
\* and message only.
hmac_sha256(key, msg) == "hmac-sha256(" \o key \o "," \o msg \o ")"

\* f"{method}|{path}|{body}|{service_id}|{timestamp}"
SignedPayload(method, path, body, service_id, timestamp) ==
    method \o "|" \o path \o "|" \o body \o "|" \o service_id \o "|" \o timestamp

\* the epoch seconds a header of this model can spell
Epochs == 0..(EpochSecond(T0) + 3 * TIMESTAMP_TOLERANCE)

\* ServiceClient._generate_signature at the client's clock t
_generate_signature(service_id, secret, method, path, body, t) ==
    LET timestamp == ToString(EpochSecond(t)) IN
    [signature |-> hmac_sha256(secret,
                               SignedPayload(method, path, body, service_id, timestamp)),
     timestamp |-> timestamp]

\* ServiceClient._get_service_headers
_get_service_headers(service_id, token, secret, method, path, body, t) ==
    LET g == _generate_signature(service_id, secret, method, path, body, t) IN
    [h \in ServiceHeaders |->
        CASE h = "X-Service-Token" -> token
          [] h = "X-Service-ID" -> service_id
          [] h = "X-Timestamp" -> g.timestamp
          [] h = "X-Signature" -> g.signature]

\* request.headers.get(h): None when the header is absent
HeaderOf(req, h) == IF h \in DOMAIN req.headers THEN req.headers[h] ELSE ""

has_permission_no_abs(req, t) ==
    LET service_token == HeaderOf(req, "X-Service-Token")
        service_id == HeaderOf(req, "X-Service-ID")
        timestamp == HeaderOf(req, "X-Timestamp")
        signature == HeaderOf(req, "X-Signature")
        numeric == \E n \in Epochs : ToString(n) = timestamp
        request_time == CHOOSE n \in Epochs : ToString(n) = timestamp
        current_time == EpochSecond(t)
    IN
    IF \E x \in {service_token, service_id, timestamp, signature} : x = "" THEN FALSE
    ELSE IF service_token # SERVICE_TOKEN THEN FALSE
    ELSE IF ~numeric THEN FALSE
    ELSE IF current_time - request_time > TIMESTAMP_TOLERANCE THEN FALSE
    ELSE signature = hmac_sha256(SERVICE_SECRET,
                                 SignedPayload(req.method, req.path, req.body,
                                               service_id, timestamp))

\* ServiceTokenPermission.has_permission at the Directory's clock t
has_permission(req, t) ==
    LET service_token == HeaderOf(req, "X-Service-Token")
        service_id == HeaderOf(req, "X-Service-ID")
        timestamp == HeaderOf(req, "X-Timestamp")
        signature == HeaderOf(req, "X-Signature")
        numeric == \E n \in Epochs : ToString(n) = timestamp
        request_time == CHOOSE n \in Epochs : ToString(n) = timestamp
        current_time == EpochSecond(t)
        diff == current_time - request_time
    IN
    IF \E x \in {service_token, service_id, timestamp, signature} : x = "" THEN FALSE
    ELSE IF service_token # SERVICE_TOKEN THEN FALSE
    ELSE IF ~numeric THEN FALSE
    ELSE IF (IF diff < 0 THEN -diff ELSE diff) > TIMESTAMP_TOLERANCE THEN FALSE
    ELSE signature = hmac_sha256(SERVICE_SECRET,
                                 SignedPayload(req.method, req.path, req.body,
                                               service_id, timestamp))

\* The tokens the auth service may be configured with: the Directory's, or
\* its own default.
ClientTokens == {SERVICE_TOKEN, "auth-service-token"}

\* How far the auth service's clock is ahead of the Directory's
ClockSkews == {0, Seconds(TIMESTAMP_TOLERANCE), Seconds(TIMESTAMP_TOLERANCE + 1)}

\* ServiceClient.get for /internal/users/{email}/: the signed request is on
\* the wire, where it can be read and sent again.
ServiceClientGet(w, email, token, skew) ==
    LET path == "/internal/users/" \o email \o "/"
        req == [method |-> "GET", path |-> path, body |-> "",
                headers |-> _get_service_headers("auth-service", token, SERVICE_SECRET,
                                                 "GET", path, "", now + skew)]
    IN
    /\ w \notin DOMAIN procs
    /\ procs' = (w :> [pc |-> "sent", request |-> req,
                       stamped |-> EpochSecond(now + skew)]) @@ procs
    /\ result' = [op |-> "service_get", request |-> req]
    /\ UNCHANGED <<now, users, sessions, resetTokens, verifications, auditLog, cache,
                   rateCalls, jwts, nextId>>

\* What arrives at the Directory for a request on the wire: the request
\* itself, or a copy someone without the secret made of it.
Arrivals(req, t) ==
    LET without(h) == [req EXCEPT !.headers = [k \in DOMAIN req.headers \ {h} |->
                                                  req.headers[k]]]
        with(h, v) == [req EXCEPT !.headers[h] = v]
    IN {req}
       \cup {without(h) : h \in ServiceHeaders}
       \cup {with("X-Service-Token", tk) : tk \in ClientTokens}
       \cup {with("X-Timestamp", ts) : ts \in {ToString(EpochSecond(t)), "soon"}}
       \cup {with("X-Service-ID", "other-service"),
             with("X-Signature",
                  hmac_sha256("guess",
                              SignedPayload(req.method, req.path, req.body,
                                            req.headers["X-Service-ID"],
                                            req.headers["X-Timestamp"]))),
             [req EXCEPT !.path = "/internal/users/b@x.com/"],
             [req EXCEPT !.body = "{}"]}

\* The Directory receives `req` and checks permission_classes of
\* InternalUserView.
HasPermission(req) ==
    /\ result' = [op |-> "has_permission", request |-> req,
                  allowed |-> has_permission(req, now)]
    /\ UNCHANGED <<now, users, sessions, resetTokens, verifications, auditLog, cache,
                   rateCalls, jwts, nextId, procs>>

\* Instants: the start, 300 seconds later, the next tick, and 301 seconds
\* later.
ServiceInstants ==
    {T0, T0 + Seconds(TIMESTAMP_TOLERANCE), T0 + Seconds(TIMESTAMP_TOLERANCE) + 1,
     T0 + Seconds(TIMESTAMP_TOLERANCE + 1)}

ServiceNext ==
    \/ \E token \in ClientTokens, skew \in ClockSkews :
          ServiceClientGet("w1", "a@x.com", token, skew)
    \/ \E w \in DOMAIN procs : \E req \in Arrivals(procs[w].request, now) :
          HasPermission(req)
    \/ Advance(ServiceInstants)

SpecService == Init /\ [][ServiceNext]_vars

\* the four conditions, with the clock read in whole seconds as the
\* timestamp is
C39_Conditions(req, t) ==
    /\ \A h \in ServiceHeaders : h \in DOMAIN req.headers /\ req.headers[h] # ""
    /\ req.headers["X-Service-Token"] = SERVICE_TOKEN
    /\ \E n \in Epochs :
          /\ ToString(n) = req.headers["X-Timestamp"]
          /\ EpochSecond(t) - n <= TIMESTAMP_TOLERANCE
          /\ n - EpochSecond(t) <= TIMESTAMP_TOLERANCE
    /\ req.headers["X-Signature"] =
          hmac_sha256(SERVICE_SECRET,
                      req.method \o "|" \o req.path \o "|" \o req.body \o "|"
                        \o req.headers["X-Service-ID"] \o "|"
                        \o req.headers["X-Timestamp"])

C39_Step ==
    Returned("has_permission") =>
        LET req == result'.request IN
        /\ result'.allowed <=> C39_Conditions(req, now)
        /\ \A w \in DOMAIN procs :
              /\ procs[w].request = req
              /\ req.headers["X-Service-Token"] = SERVICE_TOKEN
              => LET age == EpochSecond(now) - procs[w].stamped IN
                 /\ age <= TIMESTAMP_TOLERANCE /\ -age <= TIMESTAMP_TOLERANCE
                       => result'.allowed
                 /\ age > TIMESTAMP_TOLERANCE => ~result'.allowed

\* C39: the Organization Directory accepts a service request only if all four
\* authentication headers are present, the service token matches, the clock
\* and the timestamp (both in whole seconds) are at most 300 seconds apart and
\* the signature equals the HMAC-SHA256 over
\* method|path|body|service_id|timestamp; a request signed by ServiceClient
\* with the Directory's token is accepted inside the window, and the same
\* request sent again more than 300 seconds after its timestamp is rejected.
C39_ServiceRequestAccepted == [][C39_Step]_vars

\* The request ServiceClient signed, sent again unchanged 301 seconds after
\* its timestamp, is rejected.
C39_Witness ==
    /\ result.op = "has_permission"
    /\ ~result.allowed
    /\ "w1" \in DOMAIN procs
    /\ result.request = procs["w1"].request
    /\ result.request.headers["X-Service-Token"] = SERVICE_TOKEN
    /\ EpochSecond(now) - procs["w1"].stamped > TIMESTAMP_TOLERANCE
    /\ has_permission(result.request,
                      Seconds(procs["w1"].stamped + TIMESTAMP_TOLERANCE))

====
